---- MODULE Spec2Model ----
(***************************************************************************)
(* A model of the insiders backlog engine: the Account / Sponsorship /     *)
(* Sponsors / Issue data model and the Backlog ranking of                  *)
(* src/insiders/_internal/models.py, the aggregation of                    *)
(* src/insiders/_internal/ops/backlog.py, the resolution of sort           *)
(* strategies of config.py and cli.py, Polar.get_sponsors and              *)
(* Polar.get_issues, the team synchronisation of src/insiders/sync.py,     *)
(* Index.update of clients/index.py, and run() and the intercepting        *)
(* handler of logger.py.                                                   *)
(*                                                                         *)
(* Objects live in heaps: an Account is its index (oid) in `accounts`, so  *)
(* two Accounts with the same field values are still two objects.  Python  *)
(* sets of Accounts are sets of oids kept free of __eq__-duplicates by     *)
(* PySetAdd, which is how a hash set inserts.                              *)
(***************************************************************************)
EXTENDS Integers, Sequences, FiniteSets, TLC

VARIABLES
    accounts,       \* heap of Account objects, oid = index
    sponsorshipHeap, \* heap of Sponsorship objects, sid = index
    accountSet,     \* a Python set[Account], as a set of oids
    issue,          \* the Issue object under evaluation, or NoIssue
    evaluated,      \* result of reading properties (of the issue, of a Sponsors)
    githubSource,   \* what github.get_issues returns: an ordered dict
    polarSource,    \* what polar.get_issues returns: a dict
    pc,             \* get_backlog's position
    polarArg,       \* get_backlog's `polar` argument is a client (not None)
    github_issues,  \* get_backlog's local, an ordered dict of Issue objects
    polar_issues,   \* get_backlog's local
    cursor,         \* position of the loop over github_issues.items()
    error,          \* the exception get_backlog raised, or None
    sponsorsArg,    \* get_backlog's `sponsors` argument: a Sponsors object, or 0 for None
    github_users,   \* get_backlog's local: the known users, or None
    thrown,         \* the exception an issue source raised, or None
    requests,       \* the fetches issued to GitHub and Polar so far, in order
    sponsorsHeap,   \* heap of Sponsors objects: each its list of sids
    merged,         \* the latest Sponsors.merge call: arguments, result, heap before
    ctorArgs,       \* the arguments of an Account(...) call
    cmdPc,          \* position of a `backlog` command run
    cmdInput,       \* the command's inputs: the sort strings, their origin, the Polar token
    sortResolved,   \* the callables Config._eval_sort returned
    cmdError,       \* the exception that ended the command run, or None
    subscriptions,  \* the items of Polar's /v1/subscriptions/ response
    polarItems,     \* the items Polar's /v1/issues/ holds, in response order
    knownUsers,     \* Polar.get_issues' known_github_users: a list of oids, or NoUsers for None
    issuesRet,      \* what Polar.get_issues returned: a dict, or NotReturned
    syncInput,      \* sync_github_team's arguments and what GitHub holds
    syncPc,         \* position of a sync_github_team run
    teamLocal,      \* sync_github_team's local `members`
    eligibleLocal,  \* sync_github_team's local `eligible_users`
    visited,        \* the elements the running loop has gone through
    teamCalls,      \* the grant and revoke requests issued so far, in order
    teamRet,        \* what a call of get_github_team_members returned
    projects,       \* Index.update's projects, with what cache and index hold
    indexCursor,    \* position of the loop of Index.update
    built,          \* the projects built and uploaded so far, in order
    process,        \* the lines of the subprocess run() has not read, and all it wrote to stdout
    runPc,          \* position of a run() call
    stdoutLocal,    \* run()'s local `stdout`
    runRet,         \* what run() returned
    handler,        \* intercept_handler's include and exclude
    logRecord,      \* the name of the record the handler was given
    shown,          \* whether the handler passed the record on
    backlog,        \* Backlog.issues
    sorted,         \* Backlog.sort has been called
    strats,         \* the strategies of the latest Backlog.sort
    before,         \* Backlog.issues when the latest Backlog.sort was called
    sortKeys        \* the tuples _Sort.__call__ returned, per issue of `before`

issueVars == <<issue, evaluated>>
modelVars == <<accounts, sponsorshipHeap, accountSet, issue, evaluated>>
sourceVars == <<githubSource, polarSource>>
callVars == <<pc, polarArg, github_issues, polar_issues, cursor, error,
              sponsorsArg, github_users, thrown>>
getVars == <<sourceVars, callVars>>
sortVars == <<sorted, strats, before, sortKeys>>
rankVars == <<backlog, sortVars>>
sponsorsVars == <<sponsorsHeap, merged>>
commandVars == <<cmdPc, cmdInput, sortResolved, cmdError>>
polarIssueVars == <<polarItems, knownUsers, issuesRet>>
syncVars == <<syncInput, syncPc, teamLocal, eligibleLocal, visited, teamCalls, teamRet>>
indexVars == <<projects, indexCursor, built>>
runVars == <<process, runPc, stdoutLocal, runRet>>
logVars == <<handler, logRecord, shown>>
toolVars == <<polarIssueVars, syncVars, indexVars, runVars, logVars>>
feedVars == <<subscriptions, toolVars>>
sideVars == <<sponsorsVars, ctorArgs, commandVars, feedVars>>
vars == <<modelVars, getVars, rankVars, sideVars, requests>>

\* ------------------------------------------------------------------ bounds
MaxAccounts == 2
MaxSponsorships == 2
MaxIssues == 2
MaxBacklog == 3
MaxStrats == 2
MaxListed == 1
MaxSubscriptions == 2
MaxPolarItems == 2
PerPage == 2
MaxProjects == 2
MaxLines == 3

\* ------------------------------------------------------------------ values
\* An optional str (image, url) is the tuple of its pieces, so that a
\* formatted template and a literal compare; None is a value no str equals.
None == <<"None", 0>>
Str(s) == <<s>>
Platforms == {"github", "polar", "kofi"}
Names == {"a", "b"}
Images == {None, Str("img")}
Amounts == {10, 25}

\* A Python value is falsy when it is None or the empty string.
Falsy(v) == v = None \/ v = <<>>

\* ---------------------------------------------------------------- Account
\* str.format of a one-placeholder template: the prefix followed by the user.
FormatUser(prefix, user) == <<prefix, user>>

\* A plausible slip: a template for every platform.
PlatformUrlAnyPlatform(platform, name) ==
    CASE platform = "github" -> FormatUser("https://github.com/", name)
      [] platform = "polar" -> FormatUser("https://polar.sh/", name)
      [] OTHER -> FormatUser("https://ko-fi.com/", name)

\* Account._PLATFORM_URL.get(platform, "").format(user=name) or None
PlatformUrl(platform, name) ==
    CASE platform = "github" -> FormatUser("https://github.com/", name)
      [] platform = "polar" -> FormatUser("https://polar.sh/", name)
      [] OTHER -> None

\* Account._IMAGE_URL.get(platform, "").format(user=name) or None
ImageUrl(platform, name) ==
    CASE platform = "github" -> FormatUser("https://avatars.githubusercontent.com/", name)
      [] OTHER -> None

\* Account(name=, image=, url=, platform=, is_org=) followed by __post_init__.
MakeAccount(name, image, url, platform, is_org) ==
    [ name |-> name,
      image |-> IF Falsy(image) THEN ImageUrl(platform, name) ELSE image,
      url |-> IF Falsy(url) THEN PlatformUrl(platform, name) ELSE url,
      platform |-> platform,
      is_org |-> is_org,
      sponsorships |-> <<>>,
      included |-> FALSE,
      excluded |-> FALSE ]

\* A plausible slip: equality that also compares is_org.
AccountEqWithOrg(a1, a2) ==
    a1.platform = a2.platform /\ a1.name = a2.name /\ a1.is_org = a2.is_org

\* Account.__eq__
AccountEq(a1, a2) == a1.platform = a2.platform /\ a1.name = a2.name

\* Account.__hash__: hash((platform, name)), a function of that pair alone.
AccountHash(a) == <<a.platform, a.name>>

\* set.add on a set[Account]: the element is dropped when the set already
\* holds an object with the same hash that compares equal.
PySetAdd(S, oid) ==
    IF \E o \in S : /\ AccountHash(accounts[o]) = AccountHash(accounts[oid])
                    /\ AccountEq(accounts[o], accounts[oid])
    THEN S
    ELSE S \cup {oid}

Oids == 1..Len(accounts)

\* ------------------------------------------------- SpecAccount: identity
NoIssue == [number |-> 0]
NotEvaluated == [done |-> FALSE]

IssueIdle == issue = NoIssue /\ evaluated = NotEvaluated

\* get_backlog is not running and no Backlog exists.
GetIdle ==
    /\ githubSource = <<>>
    /\ polarSource = <<>>
    /\ pc = "idle"
    /\ polarArg = FALSE
    /\ github_issues = <<>>
    /\ polar_issues = <<>>
    /\ cursor = 0
    /\ error = None
    /\ sponsorsArg = 0
    /\ github_users = None
    /\ thrown = None
    /\ requests = <<>>

SortIdle == sorted = FALSE /\ strats = <<>> /\ before = <<>> /\ sortKeys = <<>>

RankIdle == backlog = <<>> /\ SortIdle

NotMerged == [done |-> FALSE, count |-> 0]
NoArgs == [given |-> FALSE]
NoInput == [source |-> "unset", strats |-> <<>>, polar_token |-> FALSE]

SponsorsIdle == sponsorsHeap = <<>> /\ merged = NotMerged
CtorIdle == ctorArgs = NoArgs
CommandIdle ==
    /\ cmdPc = "idle"
    /\ cmdInput = NoInput
    /\ sortResolved = <<>>
    /\ cmdError = None
NotReturned == [done |-> FALSE]
Returned(v) == [done |-> TRUE, value |-> v]
NoUsers == [given |-> FALSE]
Users(l) == [given |-> TRUE, users |-> l]
NoSync == [given |-> FALSE]
NoProcess == [stdout |-> <<>>, stderr |-> <<>>, wrote |-> <<>>]
NoHandler == [include |-> {}, exclude |-> {}]
NoRecord == <<>>
PolarIssuesIdle == polarItems = <<>> /\ knownUsers = NoUsers /\ issuesRet = NotReturned
SyncIdle ==
    /\ syncInput = NoSync
    /\ syncPc = "idle"
    /\ teamLocal = {}
    /\ eligibleLocal = {}
    /\ visited = {}
    /\ teamCalls = <<>>
    /\ teamRet = NotReturned
IndexIdle == projects = <<>> /\ indexCursor = 0 /\ built = <<>>
RunIdle == process = NoProcess /\ runPc = "idle" /\ stdoutLocal = <<>> /\ runRet = NotReturned
LogIdle == handler = NoHandler /\ logRecord = NoRecord /\ shown = FALSE
ToolIdle == PolarIssuesIdle /\ SyncIdle /\ IndexIdle /\ RunIdle /\ LogIdle
PolarIdle == subscriptions = <<>> /\ ToolIdle
SideIdle == SponsorsIdle /\ CtorIdle /\ CommandIdle /\ PolarIdle

InitAccount ==
    /\ accounts = <<>>
    /\ sponsorshipHeap = <<>>
    /\ accountSet = {}
    /\ IssueIdle
    /\ SideIdle
    /\ GetIdle
    /\ RankIdle

NewAccount(name, image, platform, is_org) ==
    /\ Len(accounts) < MaxAccounts
    /\ accounts' = Append(accounts, MakeAccount(name, image, None, platform, is_org))
    /\ UNCHANGED <<sponsorshipHeap, accountSet, issueVars, getVars, rankVars, sideVars, requests>>

SetAdd(oid) ==
    /\ accountSet' = PySetAdd(accountSet, oid)
    /\ accountSet' # accountSet
    /\ UNCHANGED <<accounts, sponsorshipHeap, issueVars, getVars, rankVars, sideVars, requests>>

NextAccount ==
    \/ \E n \in Names, i \in Images, p \in Platforms, o \in BOOLEAN :
          NewAccount(n, i, p, o)
    \/ \E oid \in Oids : SetAdd(oid)

SpecAccount == InitAccount /\ [][NextAccount]_vars

\* C1: two Accounts are equal exactly when platform and name agree, whatever
\* their other fields; equal Accounts hash equally; and so a set of Accounts
\* never holds two members with the same (platform, name).
C1_AccountIdentity ==
    /\ \A x, y \in Oids :
          /\ AccountEq(accounts[x], accounts[y])
                <=> <<accounts[x].platform, accounts[x].name>>
                      = <<accounts[y].platform, accounts[y].name>>
          /\ AccountEq(accounts[x], accounts[y])
                => AccountHash(accounts[x]) = AccountHash(accounts[y])
    /\ \A x, y \in accountSet :
          (accounts[x].platform = accounts[y].platform
              /\ accounts[x].name = accounts[y].name) => x = y

\* Two objects with the same key and a different is_org and image exist, and
\* the set, holding one of them, was offered the other.
C1_Witness ==
    \E x, y \in Oids :
        /\ x # y
        /\ AccountEq(accounts[x], accounts[y])
        /\ accounts[x].is_org # accounts[y].is_org
        /\ accounts[x].image # accounts[y].image
        /\ x \in accountSet
        /\ PySetAdd(accountSet, y) = accountSet

\* ------------------------------------------------------------ Sponsorship
\* Sponsorship(amount=, account=): `account` is the oid of its creator.
MakeSponsorship(amount, account) ==
    [amount |-> amount, account |-> account, beneficiaries |-> <<>>]

\* A plausible slip: the dataclass's eq=False default, equality by identity.
SponsorshipEqByIdentity(s1, s2) == s1 = s2

\* Sponsorship.__eq__, on two sids: the creators' accounts are equal.
SponsorshipEq(s1, s2) ==
    AccountEq(accounts[sponsorshipHeap[s1].account],
              accounts[sponsorshipHeap[s2].account])

\* Sponsorship.__hash__: hash(self.account).
SponsorshipHash(s) == AccountHash(accounts[sponsorshipHeap[s].account])

RECURSIVE SumAmounts(_)
\* sum(<amounts>, start=0) over a list of sids, left to right.
SumAmounts(sids) ==
    IF sids = <<>> THEN 0
    ELSE SumAmounts(SubSeq(sids, 1, Len(sids) - 1))
            + sponsorshipHeap[sids[Len(sids)]].amount

RECURSIVE MaxAmount(_)
\* max(<amounts>, default=0) over a list of sids.
MaxAmount(sids) ==
    IF sids = <<>> THEN 0
    ELSE IF Len(sids) = 1 THEN sponsorshipHeap[sids[1]].amount
    ELSE LET m == MaxAmount(Tail(sids))
             h == sponsorshipHeap[sids[1]].amount
         IN IF h > m THEN h ELSE m

\* A plausible slip: summing over the set of distinct amounts.
TierSumDistinct(a) ==
    LET vals == {sponsorshipHeap[a.sponsorships[i]].amount :
                    i \in 1..Len(a.sponsorships)}
        F[S \in SUBSET vals] ==
            IF S = {} THEN 0
            ELSE LET v == CHOOSE x \in S : TRUE IN v + F[S \ {v}]
    IN F[vals]

\* Account.tier_sum
TierSum(a) == SumAmounts(a.sponsorships)

\* Account.highest_tier
HighestTier(a) == MaxAmount(a.sponsorships)

\* ------------------------------------------------------------------ Issue
\* Issue(...): author is an oid, upvotes a Python set of oids.
MakeIssue(repository, number, created, author, upvotes, labels, pledged, platform) ==
    [ repository |-> repository, number |-> number, title |-> "t",
      created |-> created, author |-> author, upvotes |-> upvotes,
      labels |-> labels, pledged |-> pledged, platform |-> platform ]

\* The orders in which a set may be iterated: hash order is not specified.
IterOrders(S) ==
    {f \in [1..Cardinality(S) -> S] : \A i, j \in 1..Cardinality(S) : f[i] = f[j] => i = j}

RECURSIVE AddAll(_, _)
\* Inserting the elements of a list into a set[Account], in order.
AddAll(S, oids) ==
    IF oids = <<>> THEN S ELSE AddAll(PySetAdd(S, Head(oids)), Tail(oids))

\* Issue.interested_users: {self.author, *self.upvotes}, the author first.
InterestedUsers(i) ==
    LET ups == CHOOSE f \in IterOrders(i.upvotes) : TRUE
    IN AddAll({}, <<i.author>> \o ups)

RECURSIVE UserSponsorships(_)
\* The sids met by `for user in <order> for sponsorship in user.sponsorships`.
UserSponsorships(order) ==
    IF Len(order) = 0 THEN <<>>
    ELSE accounts[order[1]].sponsorships
            \o UserSponsorships([k \in 1..(Len(order) - 1) |-> order[k + 1]])

RECURSIVE KeepDistinct(_, _)
\* A set comprehension over Sponsorships: each sid met is added unless the
\* set holds one with the same hash that compares equal.
KeepDistinct(kept, sids) ==
    IF sids = <<>> THEN kept
    ELSE LET s == Head(sids)
             dup == \E k \in kept : /\ SponsorshipHash(k) = SponsorshipHash(s)
                                    /\ SponsorshipEq(k, s)
         IN KeepDistinct(IF dup THEN kept ELSE kept \cup {s}, Tail(sids))

\* Issue.sponsorships, when interested_users iterates in `order`.
IssueSponsorships(order) == KeepDistinct({}, UserSponsorships(order))

SetSum(S) ==
    LET F[T \in SUBSET S] ==
            IF T = {} THEN 0
            ELSE LET s == CHOOSE x \in T : TRUE
                 IN sponsorshipHeap[s].amount + F[T \ {s}]
    IN F[S]

\* Issue.funding, when interested_users iterates in `order`.
Funding(order) == SetSum(IssueSponsorships(order))

Sids == 1..Len(sponsorshipHeap)

\* ------------------------------------- SpecIssue: tier_sum and funding
\* Three Accounts: two objects for the same GitHub user and an organization.
IssueAccounts ==
    << MakeAccount("a", None, None, "github", FALSE),
       MakeAccount("a", Str("img"), None, "github", FALSE),
       MakeAccount("b", None, None, "github", TRUE) >>

\* The Python sets of Accounts: no two members compare equal.
PySets == {S \in SUBSET Oids :
              \A x, y \in S : AccountEq(accounts[x], accounts[y]) => x = y}

TotalListed ==
    LET F[n \in 0..Len(accounts)] ==
            IF n = 0 THEN 0 ELSE Len(accounts[n].sponsorships) + F[n - 1]
    IN F[Len(accounts)]

InitIssue ==
    /\ accounts = IssueAccounts
    /\ sponsorshipHeap = <<>>
    /\ accountSet = {}
    /\ IssueIdle
    /\ SideIdle
    /\ GetIdle
    /\ RankIdle

\* A Sponsorship is created and appended to the list of `holder` (its
\* creator, or a beneficiary of it).
NewSponsorship(amount, creator, holder) ==
    /\ evaluated = NotEvaluated
    /\ TotalListed < MaxSponsorships
    /\ sponsorshipHeap' = Append(sponsorshipHeap, MakeSponsorship(amount, creator))
    /\ accounts' = [accounts EXCEPT ![holder].sponsorships =
                        Append(@, Len(sponsorshipHeap) + 1)]
    /\ UNCHANGED <<accountSet, issueVars, getVars, rankVars, sideVars, requests>>

\* An existing Sponsorship is also listed by another account.
ShareSponsorship(sid, holder) ==
    /\ evaluated = NotEvaluated
    /\ TotalListed < MaxSponsorships
    /\ \A k \in 1..Len(accounts[holder].sponsorships) :
           accounts[holder].sponsorships[k] # sid
    /\ accounts' = [accounts EXCEPT ![holder].sponsorships = Append(@, sid)]
    /\ UNCHANGED <<sponsorshipHeap, accountSet, issueVars, getVars, rankVars, sideVars, requests>>

NewIssue(author, upvotes) ==
    /\ issue = NoIssue
    /\ issue' = MakeIssue("o/r", 1, 1, author, upvotes, {}, 0, "github")
    /\ UNCHANGED <<accounts, sponsorshipHeap, accountSet, evaluated, getVars, rankVars, sideVars, requests>>

\* Reading issue.sponsorships and issue.funding.
EvalFunding ==
    /\ issue # NoIssue
    /\ evaluated = NotEvaluated
    /\ \E order \in IterOrders(InterestedUsers(issue)) :
          evaluated' = [ done |-> TRUE,
                         sponsorships |-> IssueSponsorships(order),
                         funding |-> Funding(order) ]
    /\ UNCHANGED <<accounts, sponsorshipHeap, accountSet, issue, getVars, rankVars, sideVars, requests>>

NextIssue ==
    \/ \E m \in Amounts, c \in Oids, h \in Oids : NewSponsorship(m, c, h)
    \/ \E s \in Sids, h \in Oids : ShareSponsorship(s, h)
    \/ \E a \in Oids, u \in PySets : NewIssue(a, u)
    \/ EvalFunding

SpecIssue == InitIssue /\ [][NextIssue]_vars

\* The sum of a set of sids' amounts, by multiplicity of each amount value.
WeightedSum(count(_)) ==
    LET F[V \in SUBSET Amounts] ==
            IF V = {} THEN 0
            ELSE LET v == CHOOSE x \in V : TRUE IN v * count(v) + F[V \ {v}]
    IN F[Amounts]

Key(oid) == <<accounts[oid].platform, accounts[oid].name>>
CreatorKey(sid) == Key(sponsorshipHeap[sid].account)

\* C2: tier_sum is the sum of the amounts of every entry of the account's
\* sponsorships list, entries counted as often as they are listed; with an
\* empty list tier_sum and highest_tier are 0.
C2_TierSumAdditive ==
    \A oid \in Oids :
        LET l == accounts[oid].sponsorships
            count(v) == Cardinality({k \in 1..Len(l) : sponsorshipHeap[l[k]].amount = v})
        IN /\ TierSum(accounts[oid]) = WeightedSum(count)
           /\ l = <<>> => TierSum(accounts[oid]) = 0 /\ HighestTier(accounts[oid]) = 0

\* An account lists two sponsorships of one creator with the same amount and
\* both count; another account lists none.
C2_Witness ==
    \E oid, other \in Oids :
        LET l == accounts[oid].sponsorships
        IN /\ Len(l) = 2
           /\ l[1] # l[2]
           /\ sponsorshipHeap[l[1]] = sponsorshipHeap[l[2]]
           /\ TierSum(accounts[oid]) = 2 * sponsorshipHeap[l[1]].amount
           /\ accounts[other].sponsorships = <<>>
           /\ HighestTier(accounts[other]) = 0

AuthorAlsoUpvoter ==
    /\ evaluated.done
    /\ \E u \in issue.upvotes : Key(u) = Key(issue.author)

DictKeys(d) == {d[i].key : i \in 1..Len(d)}
DictHas(d, k) == \E i \in 1..Len(d) : d[i].key = k
DictGet(d, k) == d[CHOOSE i \in 1..Len(d) : d[i].key = k].value

\* A plausible slip: only a nonzero pledge triggers the copy.
ReconciledPledgedOnPledgeOnly(key, github_issue, polar) ==
    IF DictHas(polar, key) /\ DictGet(polar, key).pledged # 0
    THEN DictGet(polar, key).pledged
    ELSE github_issue.pledged

\* The body of the loop over github_issues.items(): the value of
\* github_issue.pledged after it.
ReconciledPledged(key, github_issue, polar) ==
    IF /\ DictHas(polar, key)
       /\ (DictGet(polar, key).upvotes # {} \/ DictGet(polar, key).pledged # 0)
    THEN DictGet(polar, key).pledged
    ELSE github_issue.pledged

\* A plausible slip: the values in reverse order.
DictValuesReversed(d) == [i \in 1..Len(d) |-> d[Len(d) + 1 - i].value]

\* list(d.values())
DictValues(d) == [i \in 1..Len(d) |-> d[i].value]

\* What the issue sources can hold.
KeyOrder == << <<"o/q", 1>>, <<"o/r", 1>>, <<"o/r", 2>> >>
IssueKeys == {KeyOrder[i] : i \in 1..Len(KeyOrder)}
GithubPledges == {0, 5}
PolarPledges == {0, 50}
BacklogAccounts == << MakeAccount("a", None, None, "github", FALSE) >>

GithubIssue(k, pledged) ==
    MakeIssue(k[1], k[2], k[2], 1, {}, {}, pledged, "github")
\* The secondary source words its titles in its own way.
PolarIssue(k, pledged, upvotes) ==
    [MakeIssue(k[1], k[2], k[2], 1, upvotes, {}, pledged, "polar") EXCEPT !.title = "p"]

KeySeqs ==
    UNION {{f \in [1..n -> IssueKeys] : \A i, j \in 1..n : f[i] = f[j] => i = j} :
              n \in 0..MaxIssues}

GithubSources ==
    {[i \in 1..Len(ks) |-> [key |-> ks[i], value |-> GithubIssue(ks[i], pl[i])]] :
        ks \in KeySeqs, pl \in [1..MaxIssues -> GithubPledges]}

\* The secondary dict is only looked up by key: one insertion order per key set.
PolarSources ==
    {[i \in 1..Len(ks) |-> [key |-> ks[i],
                            value |-> PolarIssue(ks[i], pl[i], IF up[i] THEN {1} ELSE {})]] :
        ks \in {SelectSeq(KeyOrder, LAMBDA k : k \in S) :
                    S \in {T \in SUBSET IssueKeys : Cardinality(T) <= MaxIssues}},
        pl \in [1..MaxIssues -> PolarPledges],
        up \in [1..MaxIssues -> BOOLEAN]}

\* The Sponsors collections a caller may pass: an empty one and one with a
\* sponsorship of a GitHub account.
BacklogSponsorships == << MakeSponsorship(10, 1) >>
BacklogSponsors == << <<>>, <<1>> >>

\* The exceptions a source's HTTP client raises.
FetchErrors == {Str("HTTPStatusError"), Str("ConnectError")}

InitBacklog ==
    /\ accounts = BacklogAccounts
    /\ sponsorshipHeap = BacklogSponsorships
    /\ accountSet = {}
    /\ IssueIdle
    /\ sponsorsHeap = BacklogSponsors
    /\ merged = NotMerged
    /\ CtorIdle
    /\ CommandIdle
    /\ PolarIdle
    /\ sponsorsArg = 0
    /\ github_users = None
    /\ thrown = None
    /\ requests = <<>>
    /\ githubSource \in GithubSources
    /\ polarSource \in PolarSources
    /\ pc = "idle"
    /\ polarArg = FALSE
    /\ github_issues = <<>>
    /\ polar_issues = <<>>
    /\ cursor = 0
    /\ error = None
    /\ RankIdle

\* What a Sponsors object answers to: its field, methods and properties.
SponsorsAttributes == {"sponsorships", "__add__", "__iadd__", "merge", "accounts", "beneficiaries"}

\* bool(sponsors): None is falsy; a Sponsors object defines neither __bool__
\* nor __len__, so it is truthy whatever it holds.  0 stands for None.
Truthy(sponsors) == sponsors # 0

\* get_backlog(namespaces, github, polar, sponsors), line 83:
\*   [user for user in sponsors.grantees if ...] if sponsors else None
\* With a truthy `sponsors` the attribute lookup comes first, and it raises
\* because Sponsors has no attribute `grantees`; otherwise the local is None.
GetBacklogCall(polar, sponsors) ==
    /\ pc = "idle"
    /\ polarArg' = polar
    /\ sponsorsArg' = sponsors
    /\ IF Truthy(sponsors) /\ "grantees" \notin SponsorsAttributes
       THEN /\ pc' = "raised"
            /\ error' = Str("AttributeError")
            /\ github_users' = github_users
       ELSE /\ pc' = "fetch_github"
            /\ error' = error
            /\ github_users' = None
    /\ UNCHANGED <<modelVars, sourceVars, github_issues, polar_issues, cursor, thrown,
                   rankVars, sideVars, requests>>

\* A call of a source's get_issues(namespaces, github_users).
Request(source) == [source |-> source, op |-> "get_issues", users |-> github_users]

\* github.get_issues(...) returns.
FetchGithub ==
    /\ pc = "fetch_github"
    /\ requests' = Append(requests, Request("github"))
    /\ github_issues' = githubSource
    /\ pc' = IF polarArg THEN "fetch_polar" ELSE "return"
    /\ UNCHANGED <<modelVars, sourceVars, polarArg, polar_issues, cursor, error,
                   sponsorsArg, github_users, thrown, rankVars, sideVars>>

\* polar.get_issues(...) returns; the loop starts.
FetchPolar ==
    /\ pc = "fetch_polar"
    /\ requests' = Append(requests, Request("polar"))
    /\ polar_issues' = polarSource
    /\ cursor' = 1
    /\ pc' = IF Len(github_issues) = 0 THEN "return" ELSE "reconcile"
    /\ UNCHANGED <<modelVars, sourceVars, polarArg, github_issues, error,
                   sponsorsArg, github_users, thrown, rankVars, sideVars>>

\* A plausible slip: a failure of the secondary source is swallowed.
OnFetchErrorSkipPolar(at) == IF at = "fetch_polar" THEN "return" ELSE "raised"

\* get_backlog has no try/except: an exception of a get_issues call leaves it.
OnFetchError(at) == "raised"

\* Either fetch raises.
FetchRaises ==
    /\ pc \in {"fetch_github", "fetch_polar"}
    /\ requests' = Append(requests, Request(IF pc = "fetch_github" THEN "github" ELSE "polar"))
    /\ \E e \in FetchErrors : thrown' = e /\ error' = e
    /\ pc' = OnFetchError(pc)
    /\ UNCHANGED <<modelVars, sourceVars, polarArg, github_issues, polar_issues, cursor,
                   sponsorsArg, github_users, rankVars, sideVars>>

\* A plausible slip: the primary issue is replaced by the secondary one.
ReconciledIssueReplaced(key, github_issue, polar) ==
    IF DictHas(polar, key)
          /\ (DictGet(polar, key).upvotes # {} \/ DictGet(polar, key).pledged # 0)
    THEN DictGet(polar, key)
    ELSE github_issue

\* github_issue.pledged = ...: the assignment touches one attribute of the
\* primary issue object.
ReconciledIssue(key, github_issue, polar) ==
    [github_issue EXCEPT !.pledged = ReconciledPledged(key, github_issue, polar)]

\* One iteration of `for key, github_issue in github_issues.items()`.
ReconcileStep ==
    /\ pc = "reconcile"
    /\ github_issues' =
          [github_issues EXCEPT ![cursor].value =
              ReconciledIssue(github_issues[cursor].key,
                              github_issues[cursor].value, polar_issues)]
    /\ cursor' = cursor + 1
    /\ pc' = IF cursor = Len(github_issues) THEN "return" ELSE "reconcile"
    /\ UNCHANGED <<modelVars, sourceVars, polarArg, polar_issues, error,
                   sponsorsArg, github_users, thrown, rankVars, sideVars, requests>>

\* return Backlog(issues=list(github_issues.values()))
ReturnBacklog ==
    /\ pc = "return"
    /\ backlog' = DictValues(github_issues)
    /\ pc' = "done"
    /\ UNCHANGED <<modelVars, sourceVars, polarArg, github_issues, polar_issues, cursor, error,
                   sponsorsArg, github_users, thrown, sortVars, sideVars, requests>>

NextBacklog ==
    \/ \E polar \in BOOLEAN, sponsors \in 0..Len(sponsorsHeap) :
          GetBacklogCall(polar, sponsors)
    \/ FetchGithub
    \/ FetchPolar
    \/ FetchRaises
    \/ ReconcileStep
    \/ ReturnBacklog

SpecBacklog == InitBacklog /\ [][NextBacklog]_vars

IssueKey(i) == <<i.repository, i.number>>
Triggered(k) ==
    /\ DictHas(polarSource, k)
    /\ (DictGet(polarSource, k).upvotes # {} \/ DictGet(polarSource, k).pledged # 0)

\* C4: after get_backlog with a secondary source, the returned issue at a
\* primary key K has the secondary issue's pledged when the secondary source
\* holds K with upvotes or a nonzero pledged (also when that pledged is 0),
\* and the primary issue's original pledged otherwise.
C4_Reconciliation ==
    (pc = "done" /\ polarArg) =>
        \A n \in 1..Len(githubSource) :
            LET k == githubSource[n].key
                returned == {m \in 1..Len(backlog) : IssueKey(backlog[m]) = k}
            IN /\ Cardinality(returned) = 1
               /\ \A m \in returned :
                     backlog[m].pledged =
                        IF Triggered(k) THEN DictGet(polarSource, k).pledged
                        ELSE githubSource[n].value.pledged

\* Returned: a key whose pledged 5 was replaced by the secondary's 0 because
\* of its upvotes, and a key that kept its pledged 5 although the secondary
\* source holds it (without upvotes or pledge).
C4_Witness ==
    /\ pc = "done"
    /\ polarArg
    /\ \E n, m \in 1..Len(githubSource) :
          LET k == githubSource[n].key
              j == githubSource[m].key
          IN /\ githubSource[n].value.pledged = 5
             /\ Triggered(k)
             /\ DictGet(polarSource, k).pledged = 0
             /\ backlog[n].pledged = 0
             /\ githubSource[m].value.pledged = 5
             /\ DictHas(polarSource, j)
             /\ ~Triggered(j)
             /\ backlog[m].pledged = 5

\* C5: the returned Backlog holds exactly the primary map's issues, one per
\* primary key, in the primary map's order; a key of the secondary source
\* alone yields no issue.
C5_PrimaryIssuesOnly ==
    pc = "done" =>
        /\ Len(backlog) = Len(githubSource)
        /\ \A n \in 1..Len(backlog) :
              /\ IssueKey(backlog[n]) = githubSource[n].key
              /\ [backlog[n] EXCEPT !.pledged = 0]
                    = [githubSource[n].value EXCEPT !.pledged = 0]
        /\ \A n \in 1..Len(backlog) : DictHas(githubSource, IssueKey(backlog[n]))

\* Returned with a secondary source that holds a key the primary lacks, and
\* two primary issues that are not in key order.
C5_Witness ==
    /\ pc = "done"
    /\ polarArg
    /\ \E k \in DictKeys(polarSource) : ~DictHas(githubSource, k)
    /\ Len(backlog) = 2
    /\ backlog[1].number > backlog[2].number

\* ------------------------------------------------------- Backlog ranking
\* A strategy is the closure a SortStrategy factory returns: the factory's
\* name and the arguments it captured.
StratR(name, amount, pattern, reverse) ==
    [name |-> name, amount |-> amount, pattern |-> pattern, reverse |-> reverse]

\* A plausible slip: `created` defaulting to reverse like the others.
DefaultReverseAlways(name) == TRUE

\* The default of the factories' `reverse` parameter.
DefaultReverse(name) == name # "created"

\* A factory called without `reverse`.
Strat(name, amount, pattern) == StratR(name, amount, pattern, DefaultReverse(name))

\* A plausible slip: the factor left out, every key ascending by value.
FactorAscending(s) == 1

\* factor = -1 if reverse else 1
Factor(s) == IF s.reverse THEN -1 ELSE 1

\* A plausible slip: an exclusive threshold.
GateExclusive(total, amount) == IF total > amount THEN total ELSE 0

\* total if total >= amount else 0
Gate(total, amount) == IF total >= amount THEN total ELSE 0

\* sum(upvoter.tier_sum for upvoter in issue.upvotes)
UpvotersTierSum(i) ==
    LET F[S \in SUBSET i.upvotes] ==
            IF S = {} THEN 0
            ELSE LET u == CHOOSE x \in S : TRUE
                 IN TierSum(accounts[u]) + F[S \ {u}]
    IN F[i.upvotes]

\* issue.funding as the key functions read it: one iteration order of the
\* interested users (within a run the same set iterates the same way).
IssueFunding(i) == Funding(CHOOSE order \in IterOrders(InterestedUsers(i)) : TRUE)

\* fnmatch(repository, name) for the patterns "*" and a literal name.
Fnmatch(repository, pattern) == pattern = "*" \/ repository = pattern

\* int(issue.created.timestamp()): `created` is held in whole seconds, the
\* resolution of the sources' timestamps.
CreatedSeconds(i) == i.created

\* The value a strategy's lambda computes before the factor is applied.
StratValue(s, i) ==
    CASE s.name = "min_author_sponsorships" -> Gate(TierSum(accounts[i.author]), s.amount)
      [] s.name = "author_sponsorships" -> TierSum(accounts[i.author])
      [] s.name = "min_upvoters_sponsorships" -> Gate(UpvotersTierSum(i), s.amount)
      [] s.name = "upvoters_sponsorships" -> UpvotersTierSum(i)
      [] s.name = "min_sponsorships" -> Gate(IssueFunding(i), s.amount)
      [] s.name = "sponsorships" -> IssueFunding(i)
      [] s.name = "min_pledge" -> Gate(i.pledged, s.amount)
      [] s.name = "pledge" -> i.pledged
      [] s.name = "min_upvotes" -> Gate(Cardinality(i.upvotes), s.amount)
      [] s.name = "upvotes" -> Cardinality(i.upvotes)
      [] s.name = "created" -> CreatedSeconds(i)
      [] s.name = "label" -> IF s.pattern \in i.labels THEN 1 ELSE 0
      [] s.name = "repository" -> IF Fnmatch(i.repository, s.pattern) THEN 1 ELSE 0

\* The lambda a factory returns, applied to an issue.
StratKey(s, i) == Factor(s) * StratValue(s, i)

\* Backlog._Sort.__call__: tuple(func(issue) for func in self.funcs)
SortKey(ss, i) == [k \in 1..Len(ss) |-> StratKey(ss[k], i)]

\* A plausible slip: only the first strategy decides.
TupleLessFirstOnly(a, b) == Len(a) > 0 /\ a[1] < b[1]

\* a < b on two tuples of ints of the same length.
TupleLess(a, b) ==
    \E k \in 1..Len(a) :
        /\ a[k] < b[k]
        /\ \A m \in 1..(k - 1) : a[m] = b[m]

\* A plausible slip: an element goes before the elements it ties with.
InsertBeforeEqual(order, x, keys) ==
    LET hits == {n \in 1..Len(order) : ~TupleLess(keys[order[n]], keys[x])}
        at == IF hits = {} THEN Len(order) + 1
              ELSE CHOOSE n \in hits : \A m \in hits : n <= m
    IN SubSeq(order, 1, at - 1) \o <<x>> \o SubSeq(order, at, Len(order))

\* Insertion of position x into the sorted positions `order`, after the
\* positions whose key is not greater.
InsertSorted(order, x, keys) ==
    LET hits == {n \in 1..Len(order) : TupleLess(keys[x], keys[order[n]])}
        at == IF hits = {} THEN Len(order) + 1
              ELSE CHOOSE n \in hits : \A m \in hits : n <= m
    IN SubSeq(order, 1, at - 1) \o <<x>> \o SubSeq(order, at, Len(order))

RECURSIVE SortedPositions(_, _)
\* The positions 1..n in ascending order of their keys, equal keys in
\* their original order.
SortedPositions(n, keys) ==
    IF n = 0 THEN <<>>
    ELSE InsertSorted(SortedPositions(n - 1, keys), n, keys)

\* list.sort(key=...): the key of each element is computed once, then the
\* list is put in ascending key order, equal keys keeping their order.
SortBy(l, ss) ==
    LET keys == [n \in 1..Len(l) |-> SortKey(ss, l[n])]
        order == SortedPositions(Len(l), keys)
    IN [n \in 1..Len(l) |-> l[order[n]]]

\* A plausible slip: gating strategies used as a filter.
SortedIssuesFiltered(l, ss) ==
    SortBy(SelectSeq(l, LAMBDA i : \A k \in 1..Len(ss) : StratKey(ss[k], i) # 0), ss)

\* A plausible slip: a gate written into the issue it ranks, a pledge under
\* the threshold of min_pledge being reset to 0.
SortedIssuesGating(l, ss) ==
    SortBy([n \in 1..Len(l) |->
               [l[n] EXCEPT !.pledged =
                   IF \E k \in 1..Len(ss) :
                         ss[k].name = "min_pledge" /\ l[n].pledged < ss[k].amount
                   THEN 0 ELSE @]], ss)

\* Backlog.sort(*strats): the value of self.issues after it.
SortedIssues(l, ss) == SortBy(l, ss)

\* The Accounts behind the issues to rank: tier_sum 0, 50, 100 and 200 (the
\* last with a sponsorship of its own and one of an organization).
SortAccounts ==
    << MakeAccount("w", None, None, "github", FALSE),
       [MakeAccount("x", None, None, "github", FALSE) EXCEPT !.sponsorships = <<1>>],
       [MakeAccount("y", None, None, "github", FALSE) EXCEPT !.sponsorships = <<2>>],
       [MakeAccount("z", None, None, "github", FALSE) EXCEPT !.sponsorships = <<3, 4>>],
       [MakeAccount("org", None, None, "github", TRUE) EXCEPT !.sponsorships = <<4>>] >>
SortSponsorships ==
    << MakeSponsorship(50, 2), MakeSponsorship(100, 3),
       MakeSponsorship(100, 4), MakeSponsorship(100, 5) >>

\* The issues to rank: author, creation second, pledged, upvotes.
IssueProfiles ==
    { [author |-> 1, created |-> 1, pledged |-> 49, upvotes |-> {}],
      [author |-> 4, created |-> 2, pledged |-> 50, upvotes |-> {2}],
      [author |-> 4, created |-> 3, pledged |-> 0, upvotes |-> {}],
      [author |-> 3, created |-> 1, pledged |-> 50, upvotes |-> {}],
      [author |-> 2, created |-> 2, pledged |-> 49, upvotes |-> {3}] }

ProfiledIssue(n, p) ==
    MakeIssue("o/r", n, p.created, p.author, p.upvotes, {}, p.pledged, "github")

\* The strategies a call may pass.
SortStrategies ==
    { Strat("min_author_sponsorships", 100, ""),
      Strat("author_sponsorships", 0, ""),
      Strat("created", 0, ""),
      Strat("min_pledge", 50, ""),
      StratR("min_pledge", 50, "", FALSE),
      Strat("upvoters_sponsorships", 0, "") }

StratLists(S) == UNION {[1..n -> S] : n \in 0..MaxStrats}

Backlogs(P) ==
    {[n \in 1..MaxBacklog |-> ProfiledIssue(n, ps[n])] : ps \in [1..MaxBacklog -> P]}

InitSort ==
    /\ accounts = SortAccounts
    /\ sponsorshipHeap = SortSponsorships
    /\ accountSet = {}
    /\ IssueIdle
    /\ SideIdle
    /\ GetIdle
    /\ backlog \in Backlogs(IssueProfiles)
    /\ SortIdle

\* backlog.sort(*ss)
Sort(ss) ==
    /\ before' = backlog
    /\ strats' = ss
    /\ sortKeys' = [n \in 1..Len(backlog) |-> SortKey(ss, backlog[n])]
    /\ backlog' = SortedIssues(backlog, ss)
    /\ sorted' = TRUE
    /\ UNCHANGED <<modelVars, getVars, sideVars, requests>>

\* The backlog command sorts the Backlog it got once.
SortOnce(ss) == ~sorted /\ Sort(ss)

NextSort == \E ss \in StratLists(SortStrategies) : SortOnce(ss)

SpecSort == InitSort /\ [][NextSort]_vars

\* ---------------------------------------- SpecResort: successive sorts
ResortProfiles ==
    { [author |-> 2, created |-> 2, pledged |-> 49, upvotes |-> {}],
      [author |-> 4, created |-> 3, pledged |-> 50, upvotes |-> {}],
      [author |-> 3, created |-> 1, pledged |-> 0, upvotes |-> {2}] }

ResortStrategies ==
    { Strat("min_author_sponsorships", 100, ""),
      Strat("min_pledge", 50, ""),
      Strat("created", 0, "") }

InitResort ==
    /\ accounts = SortAccounts
    /\ sponsorshipHeap = SortSponsorships
    /\ accountSet = {}
    /\ IssueIdle
    /\ SideIdle
    /\ GetIdle
    /\ backlog \in Backlogs(ResortProfiles)
    /\ SortIdle

NextResort == \E ss \in StratLists(ResortStrategies) : Sort(ss)

SpecResort == InitResort /\ [][NextResort]_vars

\* ------------------------------------------------ claims on the ranking
Positions == 1..Len(backlog)
PosOf(x) == CHOOSE n \in Positions : backlog[n] = x
Tier(i) == TierSum(accounts[i.author])

\* a <= b lexicographically: at the first component that differs, if any,
\* a's is the smaller.
LexLeq(a, b) ==
    \A k \in 1..Len(a) : (\A m \in 1..(k - 1) : a[m] = b[m]) => a[k] <= b[k]

\* C6: after Backlog.sort(s1, ..., sn) the key tuples of the issues are in
\* lexicographic ascending order along backlog.issues.
C6_LexicographicOrder ==
    sorted =>
        \A i, j \in Positions :
            i < j => LexLeq(SortKey(strats, backlog[i]), SortKey(strats, backlog[j]))

\* Two strategies were given, two issues tie on the first and differ on the
\* second, and the sort moved one ahead of the other.
C6_Witness ==
    /\ sorted
    /\ Len(strats) = 2
    /\ \E i, j \in Positions :
          /\ i < j
          /\ StratKey(strats[1], backlog[i]) = StratKey(strats[1], backlog[j])
          /\ StratKey(strats[2], backlog[i]) < StratKey(strats[2], backlog[j])
          /\ backlog[i].number > backlog[j].number

\* C7: two issues with equal key tuples keep the relative order they had
\* before the sort.
C7_Stable ==
    sorted =>
        \A i, j \in 1..Len(before) :
            (i < j /\ sortKeys[i] = sortKeys[j]) => PosOf(before[i]) < PosOf(before[j])

\* Sorted by a min_* strategy alone: two issues with different values are
\* both gated to 0 and kept their order, while a qualifying issue that was
\* behind them moved ahead.
C7_Witness ==
    /\ sorted
    /\ Len(strats) = 1
    /\ strats[1].name = "min_pledge"
    /\ \E i, j, q \in 1..Len(before) :
          /\ i < j
          /\ j < q
          /\ before[i].pledged # before[j].pledged
          /\ sortKeys[i] = <<0>>
          /\ sortKeys[j] = <<0>>
          /\ sortKeys[q] # <<0>>
          /\ PosOf(before[q]) < PosOf(before[i])
          /\ PosOf(before[i]) < PosOf(before[j])

Occurrences(l, x) == Cardinality({n \in 1..Len(l) : l[n] = x})

\* C8: whatever the strategies, a sort leaves backlog.issues a permutation
\* of what it was, and so, sort after sort, of the original issues 1..n.
C8_Permutation ==
    /\ Len(backlog) = MaxBacklog
    /\ {backlog[n].number : n \in Positions} = 1..MaxBacklog
    /\ sorted =>
          /\ Len(backlog) = Len(before)
          /\ \A n \in 1..Len(before) :
                Occurrences(backlog, before[n]) = Occurrences(before, before[n])

\* An already re-ordered backlog was sorted again, by a gating strategy that
\* gives some issue the key 0, and the order changed again.
C8_Witness ==
    /\ sorted
    /\ \E n \in 1..(Len(before) - 1) : before[n].number > before[n + 1].number
    /\ backlog # before
    /\ Len(strats) > 0
    /\ strats[1].name \in {"min_pledge", "min_author_sponsorships"}
    /\ \E n \in 1..Len(before) : sortKeys[n][1] = 0

MinPledgeDefault == Strat("min_pledge", 50, "")

\* C9 as stated: min_pledge(50) with its default arguments yields key 0 for
\* pledged 49 and key 50 for pledged 50; min_pledge(amount) yields pledged
\* when pledged >= amount and 0 when pledged < amount.
C9_KeyIsGatedPledge ==
    sorted =>
        \A k \in 1..Len(strats), n \in 1..Len(before) :
            strats[k].name = "min_pledge" =>
                /\ before[n].pledged >= strats[k].amount
                      => sortKeys[n][k] = before[n].pledged
                /\ before[n].pledged < strats[k].amount => sortKeys[n][k] = 0
                /\ (strats[k] = MinPledgeDefault /\ before[n].pledged = 50)
                      => sortKeys[n][k] = 50
                /\ (strats[k] = MinPledgeDefault /\ before[n].pledged = 49)
                      => sortKeys[n][k] = 0

\* C9, amended: the key is the gated pledge times the factor: 0 when
\* pledged < amount, -pledged when pledged >= amount and reverse is true
\* (the default), pledged when reverse is false; so min_pledge(50) with its
\* default arguments yields 0 for pledged 49 and -50 for pledged 50.
C9_KeyIsSignedGatedPledge ==
    sorted =>
        \A k \in 1..Len(strats), n \in 1..Len(before) :
            strats[k].name = "min_pledge" =>
                /\ before[n].pledged < strats[k].amount => sortKeys[n][k] = 0
                /\ (before[n].pledged >= strats[k].amount /\ strats[k].reverse)
                      => sortKeys[n][k] = 0 - before[n].pledged
                /\ (before[n].pledged >= strats[k].amount /\ ~strats[k].reverse)
                      => sortKeys[n][k] = before[n].pledged
                /\ (strats[k] = MinPledgeDefault /\ before[n].pledged = 50)
                      => sortKeys[n][k] = 0 - 50
                /\ (strats[k] = MinPledgeDefault /\ before[n].pledged = 49)
                      => sortKeys[n][k] = 0

\* Sorted by min_pledge(50) with default arguments and by min_pledge(50,
\* reverse=False): issues with pledged 49 and 50 got the keys 0, and -50, 50.
C9_Witness ==
    /\ sorted
    /\ strats = <<MinPledgeDefault, StratR("min_pledge", 50, "", FALSE)>>
    /\ \E n, m \in 1..Len(before) :
          /\ before[n].pledged = 49
          /\ sortKeys[n] = <<0, 0>>
          /\ before[m].pledged = 50
          /\ sortKeys[m] = <<0 - 50, 50>>

GateThenCreated ==
    /\ sorted
    /\ strats = <<Strat("min_author_sponsorships", 100, ""), Strat("created", 0, "")>>

\* C10 as stated: after sorting by [min_author_sponsorships(100), created()]
\* the issues whose author's tier_sum is >= 100 precede the others, and each
\* of the two groups is in ascending order of creation.
C10_GroupsInCreationOrder ==
    GateThenCreated =>
        \A i, j \in Positions :
            /\ (Tier(backlog[i]) >= 100 /\ Tier(backlog[j]) < 100) => i < j
            /\ (i < j /\ (Tier(backlog[i]) >= 100 <=> Tier(backlog[j]) >= 100))
                  => backlog[i].created <= backlog[j].created

\* C10, amended: the issues whose author's tier_sum is >= 100 precede the
\* others; those are in descending order of the author's tier_sum, and in
\* ascending order of creation among equal tier_sums; the issues whose
\* author's tier_sum is < 100 are in ascending order of creation.
C10_QualifiersByTierThenCreation ==
    GateThenCreated =>
        \A i, j \in Positions :
            /\ (Tier(backlog[i]) >= 100 /\ Tier(backlog[j]) < 100) => i < j
            /\ (i < j /\ Tier(backlog[i]) >= 100 /\ Tier(backlog[j]) >= 100)
                  => /\ Tier(backlog[i]) >= Tier(backlog[j])
                     /\ Tier(backlog[i]) = Tier(backlog[j])
                           => backlog[i].created <= backlog[j].created
            /\ (i < j /\ Tier(backlog[i]) < 100 /\ Tier(backlog[j]) < 100)
                  => backlog[i].created <= backlog[j].created

\* Sorted that way: an issue of an author with tier_sum 200 stands before an
\* older issue of an author with tier_sum 100, both before an issue of an
\* author below 100 that was first in the list.
C10_Witness ==
    /\ GateThenCreated
    /\ \E i, j, l \in Positions :
          /\ i < j
          /\ j < l
          /\ Tier(backlog[i]) = 200
          /\ Tier(backlog[j]) = 100
          /\ backlog[i].created > backlog[j].created
          /\ Tier(backlog[l]) < 100
          /\ backlog[l].number = 1

AuthorThenCreated ==
    /\ sorted
    /\ strats = <<Strat("author_sponsorships", 0, ""), Strat("created", 0, "")>>

\* The three issues of the scenario, as positions of `before`: author
\* tier_sum 0 created t1; author tier_sum 200 created t2 > t1; author
\* tier_sum 200 created t3 > t2.
Scenario(a, b, c) ==
    /\ Tier(before[a]) = 0
    /\ Tier(before[b]) = 200
    /\ Tier(before[c]) = 200
    /\ before[a].created < before[b].created
    /\ before[b].created < before[c].created

\* C11: a strategy built with default arguments has key -value, except
\* created whose key is the creation second itself; so after sorting by
\* [author_sponsorships(), created()] the three issues of the scenario stand
\* in the order [2, 3, 1], whatever order they were in.
C11_DefaultDirections ==
    sorted =>
        /\ \A k \in 1..Len(strats), n \in 1..Len(before) :
              strats[k] = Strat(strats[k].name, strats[k].amount, strats[k].pattern)
                 => sortKeys[n][k] =
                       IF strats[k].name = "created"
                       THEN before[n].created
                       ELSE 0 - StratValue(strats[k], before[n])
        /\ AuthorThenCreated =>
              \A a, b, c \in 1..Len(before) :
                  Scenario(a, b, c) =>
                      /\ PosOf(before[b]) < PosOf(before[c])
                      /\ PosOf(before[c]) < PosOf(before[a])

\* The scenario's issues were listed as [1, 3, 2] and came out as [2, 3, 1].
C11_Witness ==
    /\ AuthorThenCreated
    /\ Len(before) = 3
    /\ Scenario(1, 3, 2)
    /\ backlog = <<before[3], before[2], before[1]>>

\* --------------------------------------------------- Account.direct_sponsor
\* any(sponsorship.account is self for sponsorship in self.sponsorships):
\* `is` compares the objects, that is the oids.
DirectSponsor(oid) ==
    \E k \in 1..Len(accounts[oid].sponsorships) :
        sponsorshipHeap[accounts[oid].sponsorships[k]].account = oid

\* C15 as stated: direct_sponsor is true exactly when a sponsorship of the
\* account's own list has a creator with the account's (platform, name).
C15_DirectSponsorByAccountKey ==
    \A oid \in Oids :
        DirectSponsor(oid) <=>
            \E k \in 1..Len(accounts[oid].sponsorships) :
                CreatorKey(accounts[oid].sponsorships[k]) = Key(oid)

\* ------------------------------------------- claims on get_backlog's errors
RequestsTo(source) == {n \in 1..Len(requests) : requests[n].source = source}

\* C18: when a source raised during get_backlog, that same exception left
\* get_backlog, no Backlog was returned, each source was called at most once
\* and the failing call was the last one; when the secondary source raised,
\* the primary issues are as the primary source returned them.
C18_FetchFailurePropagates ==
    /\ Cardinality(RequestsTo("github")) <= 1
    /\ Cardinality(RequestsTo("polar")) <= 1
    /\ thrown # None =>
          /\ pc = "raised"
          /\ error = thrown
          /\ backlog = <<>>
          /\ requests[Len(requests)].source \in {"github", "polar"}
          /\ requests[Len(requests)].source = "github" =>
                Len(requests) = 1 /\ github_issues = <<>>
          /\ requests[Len(requests)].source = "polar" =>
                /\ Len(requests) = 2
                /\ requests[1].source = "github"
                /\ github_issues = githubSource
                /\ polar_issues = <<>>

\* The secondary source raised after the primary returned an issue whose
\* key the secondary source holds with a pledge to copy.
C18_Witness ==
    /\ thrown = Str("ConnectError")
    /\ pc = "raised"
    /\ Len(requests) = 2
    /\ Len(github_issues) = 2
    /\ Triggered(github_issues[1].key)
    /\ DictGet(polarSource, github_issues[1].key).pledged # github_issues[1].value.pledged

\* C19 as stated: a get_backlog call given a sponsors collection ends with
\* no error of its own (only a source's exception can end it), and every
\* fetch it issues carries the github accounts of the collection as known
\* users; a call with sponsors None passes no known users.
C19_KnownUsersFromSponsors ==
    /\ (sponsorsArg # 0 /\ pc = "raised") => error = thrown
    /\ \A n \in 1..Len(requests) :
          requests[n].users =
              IF sponsorsArg = 0 THEN None
              ELSE {o \in {sponsorshipHeap[sponsorsHeap[sponsorsArg][k]].account :
                               k \in 1..Len(sponsorsHeap[sponsorsArg])} :
                        accounts[o].platform = "github"}

\* ------------------------------------------------- SpecSponsors: Sponsors
\* Beneficiary.grant is bool | None: None, <<TRUE>> or <<FALSE>>.
Granted == <<TRUE>>
NotGranted == <<FALSE>>
GrantTruthy(g) == g = Granted

\* Beneficiary(user=, org=, grant=); org 0 stands for None.
MakeBeneficiary(user, org, grant) == [user |-> user, org |-> org, grant |-> grant]

\* d[k] = v on a dict: a present key keeps its place, a new one goes last.
DictSet(d, k, v) ==
    IF DictHas(d, k)
    THEN [i \in 1..Len(d) |-> IF d[i].key = k THEN [key |-> k, value |-> v] ELSE d[i]]
    ELSE Append(d, [key |-> k, value |-> v])

\* A plausible slip: merge as a union that skips the accounts already there.
MergedSkippingKnown(h, self, other) ==
    [h EXCEPT ![self] =
        @ \o SelectSeq(h[other],
                       LAMBDA s : \A k \in 1..Len(h[self]) : ~SponsorshipEq(h[self][k], s))]

\* A plausible slip: merge that replaces the list instead of extending it.
MergedReplacing(h, self, other) == [h EXCEPT ![self] = h[other]]

\* self.sponsorships.extend(other.sponsorships), on the heap h of Sponsors.
Merged(h, self, other) == [h EXCEPT ![self] = @ \o h[other]]

\* Sponsors.accounts: {sponsorship.account for sponsorship in self.sponsorships}
SponsorsAccounts(h, x) ==
    AddAll({}, [k \in 1..Len(h[x]) |-> sponsorshipHeap[h[x][k]].account])

\* A plausible slip: the latest entry for a name always wins.
ReplacesAlways(present, grant) == TRUE

\* `name not in beneficiaries or beneficiary.grant`
Replaces(present, grant) == ~present \/ GrantTruthy(grant)

RECURSIVE AddBeneficiaries(_, _)
\* for name, beneficiary in sponsorship.beneficiaries.items(): ...
AddBeneficiaries(result, items) ==
    IF items = <<>> THEN result
    ELSE LET name == Head(items).key
             beneficiary == Head(items).value
         IN AddBeneficiaries(
                IF Replaces(DictHas(result, name), beneficiary.grant)
                THEN DictSet(result, name, beneficiary)
                ELSE result,
                Tail(items))

RECURSIVE BeneficiariesOf(_, _)
\* for sponsorship in self.sponsorships: ..., starting from `result`.
BeneficiariesOf(result, sids) ==
    IF sids = <<>> THEN result
    ELSE BeneficiariesOf(
             AddBeneficiaries(result, sponsorshipHeap[Head(sids)].beneficiaries),
             Tail(sids))

\* Sponsors.beneficiaries
SponsorsBeneficiaries(h, x) == BeneficiariesOf(<<>>, h[x])

\* Two Account objects for the GitHub user a, as two platforms' clients
\* build them, a Polar account, and the users who benefit.
SponsorsSpecAccounts ==
    << MakeAccount("a", None, None, "github", FALSE),
       MakeAccount("a", Str("img"), None, "github", FALSE),
       MakeAccount("b", None, None, "polar", FALSE),
       MakeAccount("u", None, None, "github", FALSE),
       MakeAccount("o", None, None, "github", TRUE) >>

\* Three Sponsorships; the name "u" is a beneficiary of each, granted by the
\* first and the third only.
SponsorsSpecSponsorships ==
    << [MakeSponsorship(10, 1) EXCEPT !.beneficiaries =
           << [key |-> "u", value |-> MakeBeneficiary(4, 0, Granted)] >>],
       [MakeSponsorship(25, 2) EXCEPT !.beneficiaries =
           << [key |-> "u", value |-> MakeBeneficiary(4, 5, None)],
              [key |-> "v", value |-> MakeBeneficiary(4, 0, NotGranted)] >>],
       [MakeSponsorship(10, 3) EXCEPT !.beneficiaries =
           << [key |-> "v", value |-> MakeBeneficiary(4, 0, None)],
              [key |-> "u", value |-> MakeBeneficiary(4, 5, Granted)] >>] >>

\* Three Sponsors objects, enough for a merge of a merge.
SponsorsIds == {1, 2, 3}
\* What a client returns: a list of distinct Sponsorship objects.
Listings ==
    UNION {{l \in [1..n -> 1..Len(SponsorsSpecSponsorships)] :
               \A i, j \in 1..n : l[i] = l[j] => i = j} : n \in 0..MaxListed}

InitSponsors ==
    /\ accounts = SponsorsSpecAccounts
    /\ sponsorshipHeap = SponsorsSpecSponsorships
    /\ accountSet = {}
    /\ IssueIdle
    /\ sponsorsHeap \in [SponsorsIds -> Listings]
    /\ merged = NotMerged
    /\ CtorIdle
    /\ CommandIdle
    /\ PolarIdle
    /\ GetIdle
    /\ RankIdle

\* ret = self.merge(other), for two Sponsors objects; a run makes the merges
\* it takes to bring all the collections into one.
Merge(self, other) ==
    /\ self # other
    /\ evaluated = NotEvaluated
    /\ merged.count < Cardinality(SponsorsIds) - 1
    /\ sponsorsHeap' = Merged(sponsorsHeap, self, other)
    /\ merged' = [done |-> TRUE, count |-> merged.count + 1, self |-> self,
                  other |-> other, ret |-> self, pre |-> sponsorsHeap]
    /\ UNCHANGED <<modelVars, getVars, rankVars, ctorArgs, commandVars, feedVars, requests>>

\* Reading x.accounts and x.beneficiaries, x being what merge returned.
ReadSponsors(x) ==
    /\ evaluated = NotEvaluated
    /\ merged.done
    /\ x = merged.ret
    /\ evaluated' = [done |-> TRUE, sponsors |-> x,
                     accounts |-> SponsorsAccounts(sponsorsHeap, x),
                     beneficiaries |-> SponsorsBeneficiaries(sponsorsHeap, x)]
    /\ UNCHANGED <<accounts, sponsorshipHeap, accountSet, issue, getVars, rankVars,
                   sideVars, requests>>

NextSponsors ==
    \/ \E self \in SponsorsIds, other \in SponsorsIds : Merge(self, other)
    \/ \E x \in SponsorsIds : ReadSponsors(x)

SpecSponsors == InitSponsors /\ [][NextSponsors]_vars

\* ------------------------------------------------------ claims on Sponsors
AccountKeys(S) == {Key(o) : o \in S}
KeysOf(h, x) == AccountKeys(SponsorsAccounts(h, x))

\* C12: ret = self.merge(other) leaves in self.sponsorships what it held
\* followed by what other holds, in order; ret is self; other and every
\* other collection are unchanged; nothing is deduplicated, so the length is
\* the sum of the two lengths, while self.accounts holds no two equal accounts.
C12_MergeAppends ==
    merged.done =>
        LET self == merged.self
            other == merged.other
            pre == merged.pre
        IN /\ merged.ret = self
           /\ sponsorsHeap[self] = pre[self] \o pre[other]
           /\ Len(sponsorsHeap[self]) = Len(pre[self]) + Len(pre[other])
           /\ \A x \in SponsorsIds \ {self} : sponsorsHeap[x] = pre[x]
           /\ \A a, b \in SponsorsAccounts(sponsorsHeap, self) : Key(a) = Key(b) => a = b
           /\ KeysOf(sponsorsHeap, self) = KeysOf(pre, self) \cup KeysOf(pre, other)

\* Two collections that each held one sponsorship of the GitHub user a were
\* merged: two entries, one account.
C12_Witness ==
    /\ merged.done
    /\ merged.count = 1
    /\ Len(merged.pre[merged.self]) = 1
    /\ Len(merged.pre[merged.other]) = 1
    /\ merged.pre[merged.self] # merged.pre[merged.other]
    /\ Len(sponsorsHeap[merged.self]) = 2
    /\ CreatorKey(sponsorsHeap[merged.self][1]) = CreatorKey(sponsorsHeap[merged.self][2])
    /\ evaluated.done
    /\ evaluated.sponsors = merged.self
    /\ Cardinality(evaluated.accounts) = 1

\* C13: whichever way three collections a, b, c are merged into one,
\* a.merge(b).merge(c) or a.merge(b.merge(c)), for every choice of a, b, c,
\* the accounts of the result are, as (platform, name) pairs, the union of
\* the three accounts sets.
C13_MergeMembership ==
    \A a, b, c \in SponsorsIds :
        (a # b /\ b # c /\ a # c) =>
            LET h == sponsorsHeap
                all == KeysOf(h, a) \cup KeysOf(h, b) \cup KeysOf(h, c)
            IN /\ KeysOf(Merged(Merged(h, a, b), a, c), a) = all
               /\ KeysOf(Merged(Merged(h, b, c), a, b), a) = all

\* Two merges were made in a row, the second into the collection the first
\* returned or of it, from three collections of different accounts sets;
\* the result's accounts were read and are the union.
C13_Witness ==
    /\ merged.done
    /\ merged.count = 2
    /\ evaluated.done
    /\ evaluated.sponsors = merged.self
    /\ Len(sponsorsHeap[merged.self]) = 3
    /\ Cardinality(AccountKeys(evaluated.accounts)) = 2
    /\ Cardinality(KeysOf(merged.pre, merged.self)) = 1
    /\ \E x \in SponsorsIds \ {merged.self, merged.other} : Len(sponsorsHeap[x]) = 1

\* The sponsorships of collection x that name `name` as a beneficiary.
Naming(x, name) ==
    {k \in 1..Len(sponsorsHeap[x]) :
        DictHas(sponsorshipHeap[sponsorsHeap[x][k]].beneficiaries, name)}
GrantOf(sid, name) == DictGet(sponsorshipHeap[sid].beneficiaries, name).grant

\* C14: the keys of x.beneficiaries are the beneficiary names of all of x's
\* sponsorships, and the entry of a name has grant = True when one of the
\* sponsorships naming it has, wherever it stands in the list.
C14_GrantSticks ==
    evaluated.done =>
        LET x == evaluated.sponsors
            result == evaluated.beneficiaries
        IN /\ DictKeys(result) =
                 UNION {DictKeys(sponsorshipHeap[sponsorsHeap[x][k]].beneficiaries) :
                           k \in 1..Len(sponsorsHeap[x])}
           /\ \A name \in DictKeys(result) :
                 (\E k \in Naming(x, name) : GrantOf(sponsorsHeap[x][k], name) = Granted)
                    => DictGet(result, name).grant = Granted

\* A sponsorship granting "u" is followed in the list by one that names "u"
\* without a grant; the entry read for "u" is the granting one.
C14_Witness ==
    /\ evaluated.done
    /\ merged.done
    /\ evaluated.sponsors = merged.self
    /\ sponsorsHeap[merged.self] = <<1, 2>>
    /\ DictGet(evaluated.beneficiaries, "u") = MakeBeneficiary(4, 0, Granted)
    /\ DictKeys(evaluated.beneficiaries) = {"u", "v"}

\* ------------------------------------- SpecConstruct: Account construction
\* What a caller may pass for image and url: nothing (None), "" or a str.
ImageArgs == {None, <<>>, Str("img")}
UrlArgs == {None, <<>>, Str("https://example.org/me")}

InitConstruct ==
    /\ accounts = <<>>
    /\ sponsorshipHeap = <<>>
    /\ accountSet = {}
    /\ IssueIdle
    /\ SideIdle
    /\ GetIdle
    /\ RankIdle

\* Account(name=, image=, url=, platform=, is_org=)
Construct(name, image, url, platform, is_org) ==
    /\ ctorArgs = NoArgs
    /\ ctorArgs' = [given |-> TRUE, name |-> name, image |-> image, url |-> url,
                    platform |-> platform, is_org |-> is_org]
    /\ accounts' = Append(accounts, MakeAccount(name, image, url, platform, is_org))
    /\ UNCHANGED <<sponsorshipHeap, accountSet, issueVars, getVars, rankVars,
                   sponsorsVars, commandVars, feedVars, requests>>

NextConstruct ==
    \E name \in Names, image \in ImageArgs, url \in UrlArgs,
       platform \in Platforms, is_org \in BOOLEAN :
        Construct(name, image, url, platform, is_org)

SpecConstruct == InitConstruct /\ [][NextConstruct]_vars

Supplied(v) == v # None /\ v # <<>>

\* C16: every Account(...) call yields an Account; a supplied non-empty
\* image or url is kept; an omitted one is the platform's template filled
\* with the name (github: url and image, polar: url) and None where the
\* platform has no template (polar image, kofi url and image).
C16_DerivedUrls ==
    ctorArgs.given =>
        /\ Len(accounts) = 1
        /\ LET a == accounts[1]
               args == ctorArgs
           IN /\ a.name = args.name
              /\ a.platform = args.platform
              /\ Supplied(args.image) => a.image = args.image
              /\ Supplied(args.url) => a.url = args.url
              /\ ~Supplied(args.image) =>
                    a.image = CASE args.platform = "github" ->
                                       <<"https://avatars.githubusercontent.com/", args.name>>
                                [] args.platform = "polar" -> None
                                [] args.platform = "kofi" -> None
              /\ ~Supplied(args.url) =>
                    a.url = CASE args.platform = "github" -> <<"https://github.com/", args.name>>
                              [] args.platform = "polar" -> <<"https://polar.sh/", args.name>>
                              [] args.platform = "kofi" -> None

\* A Ko-fi account was constructed with an image and no url: the image is
\* kept and the url is None.
C16_Witness ==
    /\ ctorArgs.given
    /\ ctorArgs.platform = "kofi"
    /\ ctorArgs.image = Str("img")
    /\ ctorArgs.url = None
    /\ accounts[1].image = Str("img")
    /\ accounts[1].url = None

\* ------------------------------------------ SpecCommand: `insiders backlog`
\* The static methods of Backlog.SortStrategy.
Catalog ==
    {"min_author_sponsorships", "author_sponsorships", "min_upvoters_sponsorships",
     "upvoters_sponsorships", "min_sponsorships", "sponsorships", "min_pledge",
     "pledge", "min_upvotes", "upvotes", "created", "label", "repository"}

\* The factories with one positional parameter (amount, or name).
Positional ==
    {"min_author_sponsorships", "min_upvoters_sponsorships", "min_sponsorships",
     "min_pledge", "min_upvotes", "label", "repository"}

\* A strategy string is a name followed by nothing, by "()" or by "(50)".
StratStrings ==
    [name : {"created", "min_pledge", "bogus"}, call : {"", "()", "(50)"}]

\* A plausible slip: a name outside the catalog is taken as it comes.
InCatalogOrNot(name) == TRUE

\* Attribute lookup on Backlog.SortStrategy.
InCatalog(name) == name \in Catalog

\* eval(f"Backlog.SortStrategy.{strat}"), after "()" was appended to a
\* string that does not end with ")": the exception raised, or the callable.
EvalStrat(str) ==
    LET call == IF str.call = "" THEN "()" ELSE str.call
    IN IF ~InCatalog(str.name)
       THEN [error |-> Str("AttributeError")]
       ELSE IF (str.name \in Positional) # (call = "(50)")
       THEN [error |-> Str("TypeError")]
       ELSE [error |-> None,
             callable |-> IF call = "(50)" /\ str.name \in {"label", "repository"}
                          THEN Strat(str.name, 0, 50)
                          ELSE Strat(str.name, IF call = "(50)" THEN 50 ELSE 0, "")]

RECURSIVE EvalSortFrom(_, _)
\* The loop of Config._eval_sort over the strings left, `callables` so far.
EvalSortFrom(strs, callables) ==
    IF strs = <<>> THEN [error |-> None, callables |-> callables]
    ELSE LET r == EvalStrat(Head(strs))
         IN IF r.error # None THEN [error |-> r.error, callables |-> <<>>]
            ELSE EvalSortFrom(Tail(strs), Append(callables, r.callable))

\* Config._eval_sort(strats) for a list of strings.
EvalSort(strs) == EvalSortFrom(strs, <<>>)

\* The inputs of a run: backlog.sort of the configuration file, --sort
\* (its value split at the commas), or neither; a Polar token or none.
CommandInputs ==
    {[source |-> "unset", strats |-> <<>>, polar_token |-> t] : t \in BOOLEAN}
    \cup [source : {"config", "arg"}, strats : StratLists(StratStrings), polar_token : BOOLEAN]

InitCommand ==
    /\ accounts = <<>>
    /\ sponsorshipHeap = <<>>
    /\ accountSet = {}
    /\ IssueIdle
    /\ SponsorsIdle
    /\ CtorIdle
    /\ PolarIdle
    /\ GetIdle
    /\ RankIdle
    /\ cmdPc = "idle"
    /\ cmdInput \in CommandInputs
    /\ sortResolved = <<>>
    /\ cmdError = None

\* cappa.invoke parses the command line before it calls the command: the
\* configuration is loaded (Config.from_file) and --sort is parsed
\* (_parse_sort), either of which calls Config._eval_sort.
ResolveSort ==
    /\ cmdPc = "idle"
    /\ LET r == IF cmdInput.source = "unset"
                THEN [error |-> None, callables |-> <<>>]
                ELSE EvalSort(cmdInput.strats)
       IN /\ cmdError' = r.error
          /\ sortResolved' = r.callables
          /\ cmdPc' = IF r.error # None THEN "failed" ELSE "github_sponsors"
    /\ UNCHANGED <<modelVars, getVars, rankVars, sponsorsVars, ctorArgs, cmdInput,
                   feedVars, requests>>

\* sponsors = github.get_sponsors(...): the call returns a Sponsors or raises.
GithubSponsors ==
    /\ cmdPc = "github_sponsors"
    /\ requests' = Append(requests, [source |-> "github", op |-> "get_sponsors", users |-> None])
    /\ \/ /\ sponsorsHeap' = Append(sponsorsHeap, <<>>)
          /\ cmdPc' = IF cmdInput.polar_token THEN "polar_sponsors" ELSE "get_backlog"
          /\ cmdError' = cmdError
       \/ /\ \E e \in FetchErrors : cmdError' = e
          /\ cmdPc' = "failed"
          /\ sponsorsHeap' = sponsorsHeap
    /\ UNCHANGED <<modelVars, getVars, rankVars, merged, ctorArgs, cmdInput, sortResolved,
                   feedVars>>

\* sponsors.merge(polar.get_sponsors(...))
PolarSponsors ==
    /\ cmdPc = "polar_sponsors"
    /\ requests' = Append(requests, [source |-> "polar", op |-> "get_sponsors", users |-> None])
    /\ \/ /\ sponsorsHeap' = Merged(Append(sponsorsHeap, <<>>), 1, 2)
          /\ cmdPc' = "get_backlog"
          /\ cmdError' = cmdError
       \/ /\ \E e \in FetchErrors : cmdError' = e
          /\ cmdPc' = "failed"
          /\ sponsorsHeap' = sponsorsHeap
    /\ UNCHANGED <<modelVars, getVars, rankVars, merged, ctorArgs, cmdInput, sortResolved,
                   feedVars>>

\* backlog = get_backlog(..., sponsors=sponsors): with the Sponsors object
\* it is given, get_backlog raises at its first line.
CallGetBacklog ==
    /\ cmdPc = "get_backlog"
    /\ IF Truthy(1) /\ "grantees" \notin SponsorsAttributes
       THEN cmdPc' = "failed" /\ cmdError' = Str("AttributeError")
       ELSE cmdPc' = "fetch_issues" /\ cmdError' = cmdError
    /\ UNCHANGED <<modelVars, getVars, rankVars, sponsorsVars, ctorArgs, cmdInput,
                   sortResolved, feedVars, requests>>

NextCommand ==
    \/ ResolveSort
    \/ GithubSponsors
    \/ PolarSponsors
    \/ CallGetBacklog

SpecCommand == InitCommand /\ [][NextCommand]_vars

UnknownName == \E k \in 1..Len(cmdInput.strats) : cmdInput.strats[k].name \notin Catalog

SubscriptionItems ==
    [customer_name : {"", "a", "b"}, github_username : {"g"},
     avatar_url : {None, Str("img")}, price_amount : {0, 1000, 2500, 0 - 1000}]

InitPolar ==
    /\ accounts = <<>>
    /\ sponsorshipHeap = <<>>
    /\ accountSet = {}
    /\ IssueIdle
    /\ SponsorsIdle
    /\ CtorIdle
    /\ CommandIdle
    /\ GetIdle
    /\ RankIdle
    /\ subscriptions \in UNION {[1..n -> SubscriptionItems] : n \in 0..MaxSubscriptions}
    /\ ToolIdle

\* The items the loop does not skip: `if not item["price"].get("price_amount")`.
Priced(items) == SelectSeq(items, LAMBDA item : item.price_amount # 0)

\* Account(name=customer_name or github_username, image=avatar_url,
\*         url=f"https://polar.sh/{customer_name}", platform="polar")
SubscriberAccount(item) ==
    MakeAccount(IF item.customer_name = "" THEN item.github_username ELSE item.customer_name,
                item.avatar_url,
                FormatUser("https://polar.sh/", item.customer_name),
                "polar", FALSE)

\* int(x / 100): true division, then truncation toward zero.
IntDiv100(x) == IF x >= 0 THEN x \div 100 ELSE 0 - ((0 - x) \div 100)

\* Sponsorship(private=False, created=..., amount=int(price_amount / 100), account=account)
SubscriberSponsorship(item, account) ==
    MakeSponsorship(IntDiv100(item.price_amount), account)

\* Polar.get_sponsors returns: one new Account and one new Sponsorship per
\* priced item, and the Sponsors that lists the Sponsorships.
PolarGetSponsors ==
    /\ requests = <<>>
    /\ requests' = Append(requests, [source |-> "polar", op |-> "get_sponsors", users |-> None])
    /\ LET items == Priced(subscriptions)
       IN /\ accounts' = accounts \o [k \in 1..Len(items) |-> SubscriberAccount(items[k])]
          /\ sponsorshipHeap' =
                sponsorshipHeap \o
                [k \in 1..Len(items) |-> SubscriberSponsorship(items[k], Len(accounts) + k)]
          /\ sponsorsHeap' =
                Append(sponsorsHeap, [k \in 1..Len(items) |-> Len(sponsorshipHeap) + k])
    /\ UNCHANGED <<accountSet, issueVars, getVars, rankVars, merged, ctorArgs, commandVars,
                   feedVars>>

\* response.raise_for_status() raises: the exception leaves get_sponsors.
PolarGetSponsorsRaises ==
    /\ requests = <<>>
    /\ requests' = Append(requests, [source |-> "polar", op |-> "get_sponsors", users |-> None])
    /\ \E e \in FetchErrors : thrown' = e
    /\ UNCHANGED <<modelVars, sourceVars, pc, polarArg, github_issues, polar_issues, cursor,
                   error, sponsorsArg, github_users, rankVars, sideVars>>

NextPolar ==
    \/ PolarGetSponsors
    \/ PolarGetSponsorsRaises

SpecPolar == InitPolar /\ [][NextPolar]_vars

\* C20 as stated: every sponsorship of the Sponsors that Polar.get_sponsors
\* returned is listed in the sponsorships of the account it references, so
\* that account's tier_sum is at least the sponsorship's amount.
C20_BackReference ==
    \A x \in 1..Len(sponsorsHeap) :
        \A k \in 1..Len(sponsorsHeap[x]) :
            LET sid == sponsorsHeap[x][k]
                account == accounts[sponsorshipHeap[sid].account]
            IN /\ \E n \in 1..Len(account.sponsorships) : account.sponsorships[n] = sid
               /\ TierSum(account) >= sponsorshipHeap[sid].amount

\* C21 as stated: every Sponsorship has amount >= 0, and a response item
\* with a negative price_amount makes Polar.get_sponsors raise instead of
\* returning.
C21_AmountNonNegative ==
    /\ \A sid \in Sids : sponsorshipHeap[sid].amount >= 0
    /\ (requests # <<>> /\ \E k \in 1..Len(subscriptions) : subscriptions[k].price_amount < 0)
          => thrown # None /\ sponsorsHeap = <<>>

\* ------------------------------------------------- claims on reconciliation
\* The fields of an issue other than `pledged`.
Framed(i) == [i EXCEPT !.pledged = 0]

\* C22: the reconciliation pass of get_backlog modifies only the `pledged`
\* field of the primary issues: every other field of a primary issue, during
\* the pass and in the returned backlog, is the one the primary source gave,
\* and the secondary map is the one the secondary source gave.
C22_ReconcileFrame ==
    /\ pc \in {"reconcile", "return", "done"} =>
          /\ Len(github_issues) = Len(githubSource)
          /\ \A n \in 1..Len(github_issues) :
                /\ github_issues[n].key = githubSource[n].key
                /\ Framed(github_issues[n].value) = Framed(githubSource[n].value)
          /\ polarArg => polar_issues = polarSource
    /\ pc = "done" =>
          /\ Len(backlog) = Len(githubSource)
          /\ \A n \in 1..Len(backlog) : Framed(backlog[n]) = Framed(githubSource[n].value)

\* A returned issue took its pledge from a secondary issue that differs from
\* it in title, upvotes and platform.
C22_Witness ==
    /\ pc = "done"
    /\ polarArg
    /\ \E n \in 1..Len(backlog) :
          /\ backlog[n].pledged # githubSource[n].value.pledged
          /\ DictHas(polar_issues, githubSource[n].key)
          /\ DictGet(polar_issues, githubSource[n].key).upvotes # backlog[n].upvotes
          /\ DictGet(polar_issues, githubSource[n].key).title # backlog[n].title

C24_FundingIsAuthorTierSum ==
    (evaluated.done /\ issue.upvotes = {}) =>
        evaluated.funding = TierSum(accounts[issue.author])

\* ------------------------------------------- SpecPolarIssues: get_issues
\* A login is a name, followed or not by the suffix "[bot]".
Logins == [name : {"a", "b"}, bot : BOOLEAN]
LoginText(login) == IF login.bot THEN login.name \o "[bot]" ELSE login.name

\* What /v1/issues/ can hold.
PolarItems ==
    [state : {"open", "closed"}, login : {l \in Logins : l.name = "a" \/ ~l.bot},
     organization : {"o"}, repository : {"r"}, number : {1, 2}, pledges_sum : {0, 5000}]

\* The accounts a caller may know: two objects of the GitHub user "a".
PolarIssuesAccounts ==
    << MakeAccount("a", None, None, "github", FALSE),
       MakeAccount("a", Str("img"), None, "github", FALSE) >>
PolarKnownUsers == {NoUsers} \cup {Users(l) : l \in {<<>>, <<1>>, <<1, 2>>, <<2, 1>>}}

InitPolarIssues ==
    /\ accounts = PolarIssuesAccounts
    /\ sponsorshipHeap = <<>>
    /\ accountSet = {}
    /\ IssueIdle
    /\ GetIdle
    /\ RankIdle
    /\ SponsorsIdle
    /\ CtorIdle
    /\ CommandIdle
    /\ subscriptions = <<>>
    /\ polarItems \in UNION {[1..n -> PolarItems] : n \in 0..MaxPolarItems}
    /\ knownUsers \in PolarKnownUsers
    /\ issuesRet = NotReturned
    /\ SyncIdle
    /\ IndexIdle
    /\ RunIdle
    /\ LogIdle

\* The items the server answers for `page`, `limit` being PerPage (100 in
\* the source).
PageOf(all, page) ==
    SubSeq(all, (page - 1) * PerPage + 1,
           IF page * PerPage < Len(all) THEN page * PerPage ELSE Len(all))

\* The `while True` loop of get_issues: items.extend(data["items"]) page
\* after page, until a page holds fewer items than the limit.
RECURSIVE ExtendedFrom(_, _)
ExtendedFrom(all, page) ==
    LET data == PageOf(all, page)
    IN IF Len(data) < PerPage THEN data ELSE data \o ExtendedFrom(all, page + 1)

\* {account.name: account for account in (known_github_users or ())}
RECURSIVE KnownUsersDict(_, _)
KnownUsersDict(users, n) ==
    IF n = 0 THEN <<>>
    ELSE DictSet(KnownUsersDict(users, n - 1), accounts[users[n]].name, users[n])

\* A plausible slip: the login taken as it is.
AccountIdKeepingSuffix(login) == LoginText(login)

\* item["author"]["login"].removesuffix("[bot]")
AccountId(login) == login.name

\* f"{item['repository']['organization']['name']}/{item['repository']['name']}"
RepositoryName(item) == item.organization \o "/" \o item.repository

\* Issue(repository=..., number=..., title=..., author=account, ..., platform="polar")
ItemIssue(item, account) ==
    MakeIssue(RepositoryName(item), item.number, 1, account, {}, {},
              IntDiv100(item.pledges_sum), "polar")

\* One iteration of `for item in items`, on the loop's state: the
\* known_users dict, the heap of Accounts and the issues dict.
ProcessItem(st, item) ==
    IF item.state # "open" THEN st
    ELSE LET account_id == AccountId(item.login)
             fresh == ~DictHas(st.known_users, account_id)
             heap == IF fresh
                     THEN Append(st.heap, MakeAccount(account_id, None, None, "github", FALSE))
                     ELSE st.heap
             known == IF fresh
                      THEN DictSet(st.known_users, account_id, Len(heap))
                      ELSE st.known_users
             account == DictGet(known, account_id)
         IN [known_users |-> known, heap |-> heap,
             issues |-> DictSet(st.issues, <<RepositoryName(item), item.number>>,
                                ItemIssue(item, account))]

RECURSIVE ProcessItems(_, _, _)
ProcessItems(items, users, n) ==
    IF n = 0
    THEN [known_users |-> IF users.given
                          THEN KnownUsersDict(users.users, Len(users.users))
                          ELSE <<>>,
          heap |-> accounts, issues |-> <<>>]
    ELSE ProcessItem(ProcessItems(items, users, n - 1), items[n])

\* Polar.get_issues(github_accounts, known_github_users) returns.
PolarGetIssues ==
    /\ issuesRet = NotReturned
    /\ thrown = None
    /\ LET items == ExtendedFrom(polarItems, 1)
           st == ProcessItems(items, knownUsers, Len(items))
       IN /\ accounts' = st.heap
          /\ issuesRet' = Returned(st.issues)
    /\ UNCHANGED <<sponsorshipHeap, accountSet, issueVars, getVars, rankVars, sponsorsVars,
                   ctorArgs, commandVars, subscriptions, polarItems, knownUsers, syncVars,
                   indexVars, runVars, logVars, requests>>

\* response.raise_for_status() raises: the exception leaves get_issues.
PolarGetIssuesRaises ==
    /\ issuesRet = NotReturned
    /\ thrown = None
    /\ \E e \in FetchErrors : thrown' = e
    /\ UNCHANGED <<modelVars, sourceVars, pc, polarArg, github_issues, polar_issues, cursor,
                   error, sponsorsArg, github_users, rankVars, sideVars, requests>>

NextPolarIssues ==
    \/ PolarGetIssues
    \/ PolarGetIssuesRaises

SpecPolarIssues == InitPolarIssues /\ [][NextPolarIssues]_vars

\* ------------------------------------------------ claims on Polar issues
OpenItems == {n \in 1..Len(polarItems) : polarItems[n].state = "open"}
ItemKey(n) == <<RepositoryName(polarItems[n]), polarItems[n].number>>
LastOpen(key) == CHOOSE n \in OpenItems : ItemKey(n) = key /\ \A m \in OpenItems : ItemKey(m) = key => m <= n
KnownOids ==
    IF knownUsers.given THEN {knownUsers.users[k] : k \in 1..Len(knownUsers.users)} ELSE {}
FreshOids == (Len(PolarIssuesAccounts) + 1)..Len(accounts)

\* C25: the map Polar.get_issues returns has one entry per key
\* (organization/repository, number) of an open fetched item and no other,
\* the entry being built from the last such item; the author of an entry is
\* the known GitHub user whose name is the login without its "[bot]" suffix
\* when there is one, and otherwise a new Account of platform "github" with
\* that name, one per distinct name, shared by the entries of that author.
C25_PolarIssues ==
    issuesRet.done =>
        /\ DictKeys(issuesRet.value) = {ItemKey(n) : n \in OpenItems}
        /\ \A i, j \in 1..Len(issuesRet.value) : issuesRet.value[i].key = issuesRet.value[j].key => i = j
        /\ \A i \in 1..Len(issuesRet.value) :
              LET item == polarItems[LastOpen(issuesRet.value[i].key)]
                  value == issuesRet.value[i].value
                  author == accounts[value.author]
              IN /\ value.repository = "o/r"
                 /\ value.number = item.number
                 /\ value.pledged * 100 = item.pledges_sum
                 /\ value.platform = "polar"
                 /\ author.name = item.login.name
                 /\ author.platform = "github"
                 /\ IF \E u \in KnownOids : accounts[u].name = item.login.name
                    THEN value.author \in KnownOids
                    ELSE value.author \in FreshOids
        /\ \A i, j \in 1..Len(issuesRet.value) :
              accounts[issuesRet.value[i].value.author].name = accounts[issuesRet.value[j].value.author].name
                 => issuesRet.value[i].value.author = issuesRet.value[j].value.author
        /\ \A x, y \in FreshOids : accounts[x].name = accounts[y].name => x = y
        /\ \A x \in FreshOids :
              /\ \E n \in OpenItems : polarItems[n].login.name = accounts[x].name
              /\ \A u \in KnownOids : accounts[u].name # accounts[x].name
        /\ \A x \in 1..Len(PolarIssuesAccounts) : accounts[x] = PolarIssuesAccounts[x]

\* Two open items of one key differ in their pledge and the entry took the
\* last one's; its author, a bot login, is a known account object.
C25_Witness ==
    /\ issuesRet.done
    /\ Len(polarItems) = 2
    /\ OpenItems = {1, 2}
    /\ ItemKey(1) = ItemKey(2)
    /\ polarItems[1].pledges_sum # polarItems[2].pledges_sum
    /\ polarItems[2].login.bot
    /\ Len(issuesRet.value) = 1
    /\ issuesRet.value[1].value.author \in KnownOids

\* --------------------------------------------- SpecSync: sync_github_team
TeamLogins == {"u", "v", "w"}

\* The member lists GitHub may hold for the team, in the order it pages them.
TeamLists ==
    UNION {{f \in [1..n -> TeamLogins] : \A i, j \in 1..n : f[i] = f[j] => i = j} :
              n \in 0..Cardinality(TeamLogins)}

\* What get_github_sponsors may return: Sponsor(account, private, created, amount).
Sponsor(name, org, amount) == [name |-> name, org |-> org, amount |-> amount]
SponsorLists ==
    { <<>>, <<Sponsor("u", FALSE, 5)>>, <<Sponsor("u", FALSE, 10)>>,
      <<Sponsor("o", TRUE, 5)>>, <<Sponsor("o", TRUE, 10)>>,
      <<Sponsor("u", FALSE, 10), Sponsor("o", TRUE, 10)>> }

SyncInputs ==
    [given : {TRUE}, team_members : TeamLists, team_invites : {{}, {"w"}},
     sponsors : SponsorLists, min_amount : {10}, privileged_users : {{}, {"v"}},
     org_users : {<<>>, <<[key |-> "o", value |-> {"w"}]>>}]

InitSync ==
    /\ accounts = <<>>
    /\ sponsorshipHeap = <<>>
    /\ accountSet = {}
    /\ IssueIdle
    /\ GetIdle
    /\ RankIdle
    /\ SponsorsIdle
    /\ CtorIdle
    /\ CommandIdle
    /\ subscriptions = <<>>
    /\ PolarIssuesIdle
    /\ syncInput \in SyncInputs
    /\ syncPc = "idle"
    /\ teamLocal = {}
    /\ eligibleLocal = {}
    /\ visited = {}
    /\ teamCalls = <<>>
    /\ teamRet = NotReturned
    /\ IndexIdle
    /\ RunIdle
    /\ LogIdle

\* The `while True` loop of get_github_team_members: the response that ends
\* it, the first with fewer than per_page entries.
RECURSIVE LastResponse(_, _)
LastResponse(all, page) ==
    LET response_data == PageOf(all, page)
    IN IF Len(response_data) < PerPage THEN response_data ELSE LastResponse(all, page + 1)

\* get_github_team_members(org, team):
\*   return {user["login"] for user in response.json()}
\* `response` is the loop's last response.
TeamMembers(all) ==
    LET last == LastResponse(all, 1) IN {last[i] : i \in 1..Len(last)}

\* get_github_team_invites(org, team)
TeamInvites(invites) == invites

\* org_users.get(eligible_org, set())
OrgUsers(org_users, org) == IF DictHas(org_users, org) THEN DictGet(org_users, org) ELSE {}

\* Lines 99-107 of sync_github_team: the value of eligible_users.
EligibleUsers(in) ==
    LET sponsors == in.sponsors
        eligible_orgs == {sponsors[i].name : i \in {k \in 1..Len(sponsors) :
                              sponsors[k].org /\ sponsors[k].amount >= in.min_amount}}
        eligible_users == {sponsors[i].name : i \in {k \in 1..Len(sponsors) :
                              ~sponsors[k].org /\ sponsors[k].amount >= in.min_amount}}
    IN eligible_users \cup in.privileged_users
          \cup UNION {OrgUsers(in.org_users, o) : o \in eligible_orgs}

\* A call of get_github_team_members on its own.
GetGithubTeamMembers ==
    /\ syncPc = "idle"
    /\ ~teamRet.done
    /\ teamRet' = Returned(TeamMembers(syncInput.team_members))
    /\ UNCHANGED <<modelVars, getVars, rankVars, sponsorsVars, ctorArgs, commandVars,
                   subscriptions, polarIssueVars, syncInput, syncPc, teamLocal,
                   eligibleLocal, visited, teamCalls, indexVars, runVars, logVars, requests>>

\* Where a run goes once the loop over `members` is over.
AfterRevokes(eligible) == IF eligible = {} THEN "done" ELSE "grant"

\* sync_github_team up to its first loop: the sponsors are fetched, the
\* eligible users computed, the members and the invitations fetched.
SyncGithubTeam ==
    /\ syncPc = "idle"
    /\ eligibleLocal' = EligibleUsers(syncInput)
    /\ teamLocal' = TeamMembers(syncInput.team_members) \cup TeamInvites(syncInput.team_invites)
    /\ visited' = {}
    /\ syncPc' = IF teamLocal' = {} THEN AfterRevokes(eligibleLocal') ELSE "revoke"
    /\ UNCHANGED <<modelVars, getVars, rankVars, sponsorsVars, ctorArgs, commandVars,
                   subscriptions, polarIssueVars, syncInput, teamCalls, teamRet,
                   indexVars, runVars, logVars, requests>>

\* raise_for_status() of one of the fetches raises: the run ends there.
SyncFetchRaises ==
    /\ syncPc = "idle"
    /\ syncPc' = "raised"
    /\ UNCHANGED <<modelVars, getVars, rankVars, sponsorsVars, ctorArgs, commandVars,
                   subscriptions, polarIssueVars, syncInput, teamLocal, eligibleLocal,
                   visited, teamCalls, teamRet, indexVars, runVars, logVars, requests>>

\* One iteration of `for user in members`: a set is gone through in an
\* order of its own.  A failed DELETE is logged, not raised.
RevokeStep ==
    /\ syncPc = "revoke"
    /\ \E user \in teamLocal \ visited :
          /\ visited' = IF visited \cup {user} = teamLocal THEN {} ELSE visited \cup {user}
          /\ teamCalls' = IF user \notin eligibleLocal
                          THEN Append(teamCalls, [op |-> "revoke", user |-> user])
                          ELSE teamCalls
          /\ syncPc' = IF visited \cup {user} = teamLocal
                       THEN AfterRevokes(eligibleLocal)
                       ELSE "revoke"
    /\ UNCHANGED <<modelVars, getVars, rankVars, sponsorsVars, ctorArgs, commandVars,
                   subscriptions, polarIssueVars, syncInput, teamLocal, eligibleLocal,
                   teamRet, indexVars, runVars, logVars, requests>>

\* One iteration of `for user in eligible_users`.  A failed PUT is logged,
\* not raised.
GrantStep ==
    /\ syncPc = "grant"
    /\ \E user \in eligibleLocal \ visited :
          /\ visited' = visited \cup {user}
          /\ teamCalls' = IF user \notin teamLocal
                          THEN Append(teamCalls, [op |-> "grant", user |-> user])
                          ELSE teamCalls
          /\ syncPc' = IF visited' = eligibleLocal THEN "done" ELSE "grant"
    /\ UNCHANGED <<modelVars, getVars, rankVars, sponsorsVars, ctorArgs, commandVars,
                   subscriptions, polarIssueVars, syncInput, teamLocal, eligibleLocal,
                   teamRet, indexVars, runVars, logVars, requests>>

NextSync ==
    \/ GetGithubTeamMembers
    \/ SyncGithubTeam
    \/ SyncFetchRaises
    \/ RevokeStep
    \/ GrantStep

SpecSync == InitSync /\ [][NextSync]_vars

\* ------------------------------------------------------- claims on the sync
\* The logins of the team's members, whatever the page they are on.
AllTeamMembers == {syncInput.team_members[i] : i \in 1..Len(syncInput.team_members)}

\* C26 as stated: get_github_team_members returns the logins of all the
\* members of the team, the union of the logins of every fetched page.
C26_AllTeamMembers ==
    teamRet.done => teamRet.value = AllTeamMembers

\* The users the run has to let in, and the users that are in.
Eligible == EligibleUsers(syncInput)
CurrentMembers == AllTeamMembers \cup syncInput.team_invites
CallsOf(op) == {k \in 1..Len(teamCalls) : teamCalls[k].op = op}
UsersOf(op) == {teamCalls[k].user : k \in CallsOf(op)}

\* C27 as stated: in a run of sync_github_team a revoke is issued exactly
\* for each current member or invitee that is not eligible, a grant exactly
\* for each eligible user that is neither, nobody gets both, a privileged
\* user is never revoked, and every revoke comes before the first grant.
C27_SyncExact ==
    /\ \A i, j \in 1..Len(teamCalls) :
          /\ (teamCalls[i].op = "grant" /\ teamCalls[j].op = "revoke") => j < i
          /\ teamCalls[i] = teamCalls[j] => i = j
    /\ UsersOf("revoke") \cap UsersOf("grant") = {}
    /\ UsersOf("revoke") \cap syncInput.privileged_users = {}
    /\ syncPc = "done" =>
          /\ UsersOf("revoke") = CurrentMembers \ Eligible
          /\ UsersOf("grant") = Eligible \ CurrentMembers

\* The same, of the members and invitees the run fetched: what the two
\* loops do with the sets they are given.
SyncExactOfFetched ==
    /\ \A i, j \in 1..Len(teamCalls) :
          /\ (teamCalls[i].op = "grant" /\ teamCalls[j].op = "revoke") => j < i
          /\ teamCalls[i] = teamCalls[j] => i = j
    /\ UsersOf("revoke") \cap UsersOf("grant") = {}
    /\ UsersOf("revoke") \cap syncInput.privileged_users = {}
    /\ syncPc = "done" =>
          /\ UsersOf("revoke") = teamLocal \ Eligible
          /\ UsersOf("grant") = Eligible \ teamLocal

\* ----------------------------------------------- SpecIndex: Index.update
\* A version string is the sequence of its characters.
V_1_0 == <<"1", ".", "0">>
V_1_1 == <<"1", ".", "1">>
V_0_0_0 == <<"0", ".", "0", ".", "0">>

\* What `git describe --tags --abbrev=0` prints, stripped: nothing when the
\* repository has no tag.
Tags ==
    { <<>>, V_1_0, <<"v">> \o V_1_0, V_1_1,
      V_1_0 \o <<"+", "i">>, V_1_0 \o <<"-", "i">>, V_1_1 \o <<"+", "i">> }

\* The versions of a distribution the index may hold.
IndexContents ==
    { {}, {V_1_0}, {V_1_1}, {V_1_0, V_1_1},
      {V_1_0 \o <<"+", "i">>}, {V_1_0 \o <<"+", "i">>, V_1_1 \o <<"+", "i">>} }

Project(name, cached, tag, index) ==
    [name |-> name, cached |-> cached, tag |-> tag, index |-> index]

\* The projects a run may go through: a repository that is not in the cache
\* has no tag to read.
ProjectsOf(name) ==
    {Project(name, FALSE, <<>>, {})}
       \cup {Project(name, TRUE, t, i) : t \in Tags, i \in IndexContents}

ProjectLists ==
    UNION {{f \in [1..n -> UNION {ProjectsOf(m) : m \in 1..n}] :
               \A k \in 1..n : f[k].name = k} : n \in 0..MaxProjects}

InitIndex ==
    /\ accounts = <<>>
    /\ sponsorshipHeap = <<>>
    /\ accountSet = {}
    /\ IssueIdle
    /\ GetIdle
    /\ RankIdle
    /\ SponsorsIdle
    /\ CtorIdle
    /\ CommandIdle
    /\ subscriptions = <<>>
    /\ PolarIssuesIdle
    /\ SyncIdle
    /\ projects \in ProjectLists
    /\ indexCursor = 0
    /\ built = <<>>
    /\ RunIdle
    /\ LogIdle

\* _normalize_version(version)
NormalizeVersion(version) ==
    LET v == IF version[1] = "v" THEN Tail(version) ELSE version
    IN [k \in 1..Len(v) |-> IF v[k] \in {"+", "-"} THEN "." ELSE v[k]]

\* packaging.version.Version on the strings at hand: a release of one-digit
\* numbers separated by dots, then possibly "+" and a local label of letters
\* and digits.  Any other string raises InvalidVersion.
Digits == <<"0", "1", "2">>
IsDigit(c) == \E d \in 1..Len(Digits) : Digits[d] = c
DigitValue(c) == (CHOOSE d \in 1..Len(Digits) : Digits[d] = c) - 1
PlusAt(s) == {k \in 1..Len(s) : s[k] = "+"}
ReleasePart(s) == IF PlusAt(s) = {} THEN s ELSE SubSeq(s, 1, (CHOOSE k \in PlusAt(s) : TRUE) - 1)
LocalPart(s) == IF PlusAt(s) = {} THEN <<>> ELSE SubSeq(s, (CHOOSE k \in PlusAt(s) : TRUE) + 1, Len(s))
ValidVersion(s) ==
    LET rel == ReleasePart(s)
        loc == LocalPart(s)
    IN /\ Cardinality(PlusAt(s)) <= 1
       /\ Len(rel) % 2 = 1
       /\ \A k \in 1..Len(rel) : IF k % 2 = 1 THEN IsDigit(rel[k]) ELSE rel[k] = "."
       /\ PlusAt(s) # {} => (loc # <<>> /\ \A k \in 1..Len(loc) : loc[k] \in {"i"} \/ IsDigit(loc[k]))
Release(s) == LET rel == ReleasePart(s) IN [k \in 1..((Len(rel) + 1) \div 2) |-> DigitValue(rel[2 * k - 1])]
ReleaseAt(r, k) == IF k <= Len(r) THEN r[k] ELSE 0
ReleaseLess(a, b) ==
    \E k \in 1..(Len(a) + Len(b)) :
        /\ ReleaseAt(a, k) < ReleaseAt(b, k)
        /\ \A m \in 1..(k - 1) : ReleaseAt(a, m) = ReleaseAt(b, m)
ReleaseEq(a, b) == \A k \in 1..(Len(a) + Len(b)) : ReleaseAt(a, k) = ReleaseAt(b, k)

\* Version(a) < Version(b), of two valid versions whose local labels, when
\* both have one, are the same: a version without label comes first.
VersionLess(a, b) ==
    \/ ReleaseLess(Release(a), Release(b))
    \/ /\ ReleaseEq(Release(a), Release(b))
       /\ LocalPart(a) = <<>>
       /\ LocalPart(b) # <<>>
VersionEq(a, b) == ~VersionLess(a, b) /\ ~VersionLess(b, a)

\* Index.latest(name): the best match of the finder, or None.
Found(v) == [found |-> TRUE, version |-> v]
NotFound == [found |-> FALSE]
Latest(index) ==
    IF index = {} THEN NotFound
    ELSE Found(CHOOSE v \in index : \A w \in index : ~VersionLess(v, w))

\* Index.exists(name, version): a best match for f"{name}=={version}".
Exists(index, version) == \E v \in index : VersionEq(v, version)

\* Lines 238-250 of Index.update: whether the iteration goes on to build.
\* Version(...) raising InvalidVersion is caught and passed.
BuildsTag(latest_tag, index) ==
    LET latest_version == Latest(index)
        normal_tag == NormalizeVersion(latest_tag)
        normal_version == NormalizeVersion(IF latest_version.found
                                           THEN latest_version.version ELSE V_0_0_0)
    IN /\ ~latest_version.found \/ normal_tag # normal_version
       /\ ~ /\ ValidVersion(normal_tag)
            /\ ValidVersion(normal_version)
            /\ VersionLess(normal_tag, normal_version)
            /\ Exists(index, normal_tag)

\* One iteration of `for name in projects`.
UpdateStep ==
    /\ indexCursor < Len(projects)
    /\ indexCursor' = indexCursor + 1
    /\ LET project == projects[indexCursor + 1]
       IN built' = IF /\ project.cached
                      /\ project.tag # <<>>
                      /\ BuildsTag(project.tag, project.index)
                   THEN Append(built, project.name)
                   ELSE built
    /\ UNCHANGED <<modelVars, getVars, rankVars, sponsorsVars, ctorArgs, commandVars,
                   subscriptions, polarIssueVars, syncVars, projects, runVars, logVars,
                   requests>>

NextIndex == UpdateStep

SpecIndex == InitIndex /\ [][NextIndex]_vars

\* ------------------------------------------------- claims on Index.update
Handled == 1..indexCursor
OnIndex(project) == \E v \in project.index : NormalizeVersion(v) = NormalizeVersion(project.tag)
WasBuilt(n) == \E k \in 1..Len(built) : built[k] = n

\* C28 as stated: Index.update builds and uploads the distributions of a
\* cached repository that has a latest tag if and only if the normalized
\* version of that tag is not on the index; a repository that is not in the
\* cache or has no tag is skipped, and the repositories after it are still
\* gone through.
C28_BuildsIffNotOnIndex ==
    /\ \A n \in Handled :
          WasBuilt(n) <=> /\ projects[n].cached
                          /\ projects[n].tag # <<>>
                          /\ ~OnIndex(projects[n])
    /\ \A k \in 1..Len(built) : built[k] \in Handled

\* ------------------------------------------------------- SpecRun: run()
\* A line is the sequence of its characters, its newline included.
StdoutLines == { <<"a", "\n">>, <<" ", "b", "\n">>, <<"\n">> }
StderrLines == { <<"e", "\n">>, <<"\n">> }
LineSeqs(L) == UNION {[1..n -> L] : n \in 0..MaxLines}

InitRun ==
    /\ accounts = <<>>
    /\ sponsorshipHeap = <<>>
    /\ accountSet = {}
    /\ IssueIdle
    /\ GetIdle
    /\ RankIdle
    /\ SponsorsIdle
    /\ CtorIdle
    /\ CommandIdle
    /\ subscriptions = <<>>
    /\ PolarIssuesIdle
    /\ SyncIdle
    /\ IndexIdle
    /\ \E out \in LineSeqs(StdoutLines), err \in LineSeqs(StderrLines) :
          process = [stdout |-> out, stderr |-> err, wrote |-> out]
    /\ runPc = "idle"
    /\ stdoutLocal = <<>>
    /\ runRet = NotReturned
    /\ LogIdle

\* str.strip(): leading and trailing whitespace removed.
Whitespace == {" ", "\n"}
RECURSIVE LStrip(_)
LStrip(s) == IF s # <<>> /\ Head(s) \in Whitespace THEN LStrip(Tail(s)) ELSE s
RECURSIVE RStrip(_)
RStrip(s) ==
    IF s # <<>> /\ s[Len(s)] \in Whitespace THEN RStrip(SubSeq(s, 1, Len(s) - 1)) ELSE s
Strip(s) == RStrip(LStrip(s))

\* stream.readline(): the next line, or the empty string at end of file.
Readline(stream) == IF stream = <<>> THEN <<>> ELSE Head(stream)
AfterReadline(stream) == IF stream = <<>> THEN <<>> ELSE Tail(stream)

\* "\n".join(lines)
RECURSIVE Join(_)
Join(lines) ==
    IF lines = <<>> THEN <<>>
    ELSE IF Len(lines) = 1 THEN lines[1]
    ELSE lines[1] \o <<"\n">> \o Join(Tail(lines))

\* subprocess.Popen(...) returns.
RunStart ==
    /\ runPc = "idle"
    /\ runPc' = "loop"
    /\ UNCHANGED <<modelVars, getVars, rankVars, sponsorsVars, ctorArgs, commandVars,
                   subscriptions, polarIssueVars, syncVars, indexVars, process, stdoutLocal,
                   runRet, logVars, requests>>

\* One iteration of `while True`: a line is read from each stream; the loop
\* breaks when both are empty once stripped, and run() returns.
RunLoop ==
    /\ runPc = "loop"
    /\ LET stdout_line == Strip(Readline(process.stdout))
           stderr_line == Strip(Readline(process.stderr))
           stdout == IF stdout_line # <<>> THEN Append(stdoutLocal, stdout_line)
                     ELSE stdoutLocal
       IN /\ process' = [process EXCEPT !.stdout = AfterReadline(@),
                                         !.stderr = AfterReadline(@)]
          /\ stdoutLocal' = stdout
          /\ IF stdout_line = <<>> /\ stderr_line = <<>>
             THEN runPc' = "done" /\ runRet' = Returned(Join(stdout))
             ELSE runPc' = "loop" /\ runRet' = runRet
    /\ UNCHANGED <<modelVars, getVars, rankVars, sponsorsVars, ctorArgs, commandVars,
                   subscriptions, polarIssueVars, syncVars, indexVars, logVars, requests>>

NextRun ==
    \/ RunStart
    \/ RunLoop

SpecRun == InitRun /\ [][NextRun]_vars

\* --------------------------------------------------------- claims on run()
\* The non-blank lines among `lines`, stripped, in order.
RECURSIVE NonBlank(_)
NonBlank(lines) ==
    IF lines = <<>> THEN <<>>
    ELSE IF Strip(Head(lines)) = <<>> THEN NonBlank(Tail(lines))
    ELSE <<Strip(Head(lines))>> \o NonBlank(Tail(lines))

\* C29 as stated: run() returns every non-blank line the process wrote to
\* its standard output, stripped, in order and joined by newlines, whatever
\* blank lines the output holds and whichever stream ends first; the loop
\* ends only when both streams are exhausted.
C29_CompleteStdout ==
    runPc = "done" =>
        /\ runRet.done
        /\ runRet.value = Join(NonBlank(process.wrote))
        /\ process.stdout = <<>>
        /\ process.stderr = <<>>

\* ---------------------------------------------- SpecLog: _InterceptHandler
\* A logger name is the sequence of its dot-separated components.
Packages == { <<"a">>, <<"a", "b">>, <<"b">> }
LoggerNames ==
    { <<"insiders">>, <<"insiders", "x">>, <<"insidersx">>,
      <<"a">>, <<"a", "b">>, <<"a", "c">>, <<"ab">>, <<"b">> }

InitLog ==
    /\ accounts = <<>>
    /\ sponsorshipHeap = <<>>
    /\ accountSet = {}
    /\ IssueIdle
    /\ GetIdle
    /\ RankIdle
    /\ SponsorsIdle
    /\ CtorIdle
    /\ CommandIdle
    /\ subscriptions = <<>>
    /\ PolarIssuesIdle
    /\ SyncIdle
    /\ IndexIdle
    /\ RunIdle
    /\ handler = NoHandler
    /\ logRecord = NoRecord
    /\ shown = FALSE

\* name.startswith(f"{package}."): the package's components, then more.
StartsWithDotted(name, package) ==
    /\ Len(name) > Len(package)
    /\ SubSeq(name, 1, Len(package)) = package

\* _InterceptHandler._main: record.name.split(".", 1)[0] == "insiders"
Main(name) == name[1] = "insiders"

\* _InterceptHandler._included
Included(h, name) ==
    \/ h.include = {}
    \/ name \in h.include
    \/ \E included \in h.include : StartsWithDotted(name, included)

\* _InterceptHandler._excluded:
\*   record.name in self.include or any(... for hidden in self.exclude)
Excluded(h, name) ==
    \/ name \in h.include
    \/ \E hidden \in h.exclude : StartsWithDotted(name, hidden)

\* _InterceptHandler._show
Show(h, name) == Main(name) \/ (Included(h, name) /\ ~Excluded(h, name))

\* configure_logging(level, path, include=..., exclude=...)
ConfigureLogging(include, exclude) ==
    /\ logRecord = NoRecord
    /\ handler' = [include |-> include, exclude |-> exclude]
    /\ UNCHANGED <<modelVars, getVars, rankVars, sponsorsVars, ctorArgs, commandVars,
                   subscriptions, polarIssueVars, syncVars, indexVars, runVars, logRecord,
                   shown, requests>>

\* _InterceptHandler.emit(record): the record is passed on to loguru when
\* _show allows it.
Emit(name) ==
    /\ logRecord = NoRecord
    /\ logRecord' = name
    /\ shown' = Show(handler, name)
    /\ UNCHANGED <<modelVars, getVars, rankVars, sponsorsVars, ctorArgs, commandVars,
                   subscriptions, polarIssueVars, syncVars, indexVars, runVars, handler,
                   requests>>

NextLog ==
    \/ \E include, exclude \in SUBSET Packages : ConfigureLogging(include, exclude)
    \/ \E name \in LoggerNames : Emit(name)

SpecLog == InitLog /\ [][NextLog]_vars

\* -------------------------------------------------- claims on the handler
\* A name is covered by a list of packages when it is one of them or the
\* name of a logger below one of them.
Covered(name, packages) ==
    \E package \in packages : name = package \/ StartsWithDotted(name, package)

\* C30 as stated: a record of a logger outside insiders is shown if and only
\* if its name is covered by include, or include is empty, and is not
\* covered by exclude, so that a record named exactly as an included package
\* that is not excluded is shown; a record of insiders is always shown.
C30_ShownIffIncluded ==
    logRecord # NoRecord =>
        IF logRecord[1] = "insiders"
        THEN shown
        ELSE shown <=> /\ handler.include = {} \/ Covered(logRecord, handler.include)
                       /\ ~Covered(logRecord, handler.exclude)
====
